---- MODULE Spec2Model ----
(***************************************************************************)
(* Yield-curve fitting engine: the Newton solver fitYieldCurve, the two    *)
(* covariance calibration loops (VasicekModelTemplate.calibrate and        *)
(* calibrateYieldCurveModel), and the models and instruments they drive:   *)
(* BSpline and SplineModel, the instruments' impliedRate, covariance, and  *)
(* the server's merge of the historical series, TimeSeries.GetPanelData.   *)
(*                                                                         *)
(* Numbers.  A JavaScript number is modelled as an exact rational <<n, d>> *)
(* in lowest terms with d > 0, or as one of the three non-finite values    *)
(* NaN = <<0,0>>, +Infinity = <<1,0>>, -Infinity = <<-1,0>>.  Arithmetic   *)
(* on finite values is exact; the non-finite values follow IEEE-754 (the   *)
(* sign of zero is not tracked).  Math.exp / Math.log occur as             *)
(* -log(exp(-F)), which is F, except in Swap.impliedRate, whose discount   *)
(* factors exp(-F) are modelled by DfStandIn.  What floating point and    *)
(* the first-order linearisation add to an exact result is a               *)
(* nondeterministic choice from a small set (SolveNoise, CovarNoise).      *)
(*                                                                         *)
(* Evaluation.  Only({e(v) : v \in {E}}) is e with v bound to the value of *)
(* E: it is LET v == E IN e(v) with E evaluated once.                      *)
(***************************************************************************)
EXTENDS Integers, Sequences, FiniteSets, TLC

Only(S) == CHOOSE y \in S : TRUE

\* a function over 1..n as a tuple with its entries evaluated
Tup(f) == f \o <<>>

----------------------------------------------------------------------------
(* Numbers *)

NaN == <<0, 0>>
PosInf == <<1, 0>>
NegInf == <<-1, 0>>
Zero == <<0, 1>>
One == <<1, 1>>

IAbs(k) == IF k < 0 THEN -k ELSE k
ISgn(k) == IF k < 0 THEN -1 ELSE IF k > 0 THEN 1 ELSE 0

RECURSIVE GCD(_, _)
GCD(a, b) == IF b = 0 THEN a ELSE Only({GCD(v, u % v) : u \in {a}, v \in {b}})

\* the rational n/d (d # 0) in lowest terms
Rat(n, d) ==
    Only({Only({<<ISgn(v) * (u \div g), IAbs(v) \div g>> :
                g \in {GCD(IAbs(u), IAbs(v))}}) : u \in {n}, v \in {d}})

Num(k) == <<k, 1>>

isFinite(x) == x[2] # 0
isNaN(x) == x = NaN

AddV(x, y) ==
    IF isFinite(x) /\ isFinite(y)
    THEN Only({Rat(x[1] * (l \div x[2]) + y[1] * (l \div y[2]), l) :
               l \in {(x[2] \div GCD(x[2], y[2])) * y[2]}})
    ELSE IF isNaN(x) \/ isNaN(y) THEN NaN
    ELSE IF isFinite(x) THEN y
    ELSE IF isFinite(y) THEN x
    ELSE IF x = y THEN x ELSE NaN

RAdd(x, y) == Only({AddV(u, v) : u \in {x}, v \in {y}})
RSub(x, y) == Only({AddV(u, <<-v[1], v[2]>>) : u \in {x}, v \in {y}})

MulV(x, y) ==
    IF isFinite(x) /\ isFinite(y)
    THEN Only({<<(x[1] \div g1) * (y[1] \div g2), (x[2] \div g2) * (y[2] \div g1)>> :
               g1 \in {GCD(IAbs(x[1]), y[2])}, g2 \in {GCD(IAbs(y[1]), x[2])}})
    ELSE IF isNaN(x) \/ isNaN(y) THEN NaN
    ELSE IF x[1] = 0 \/ y[1] = 0 THEN NaN
    ELSE <<ISgn(x[1]) * ISgn(y[1]), 0>>

RMul(x, y) == Only({MulV(u, v) : u \in {x}, v \in {y}})

DivV(x, y) ==
    IF isNaN(x) \/ isNaN(y) THEN NaN
    ELSE IF isFinite(y) /\ y[1] # 0
         THEN MulV(x, <<ISgn(y[1]) * y[2], IAbs(y[1])>>)
    ELSE IF isFinite(y)
         THEN (IF x[1] = 0 THEN NaN ELSE <<ISgn(x[1]), 0>>)
    ELSE IF isFinite(x) THEN Zero ELSE NaN

RDiv(x, y) == Only({DivV(u, v) : u \in {x}, v \in {y}})

MathAbs(x) == Only({<<IAbs(u[1]), u[2]>> : u \in {x}})

LtV(x, y) ==
    IF isNaN(x) \/ isNaN(y) THEN FALSE
    ELSE IF isFinite(x) /\ isFinite(y) THEN x[1] * y[2] < y[1] * x[2]
    ELSE IF x = y THEN FALSE
    ELSE x = NegInf \/ y = PosInf

\* x < 1/inv for a positive integer inv (1.0e-8 is 1/100000000)
LtTol(x, inv) ==
    Only({IF isNaN(u) THEN FALSE
          ELSE IF ~isFinite(u) THEN u = NegInf
          ELSE u[1] <= 0 \/ u[1] <= (u[2] - 1) \div inv : u \in {x}})

\* Math.max of two numbers
Max2(x, y) ==
    Only({IF isNaN(u) \/ isNaN(v) THEN NaN
          ELSE IF LtV(u, v) THEN v ELSE u : u \in {x}, v \in {y}})

\* Math.max.apply(null, v): -Infinity for the empty list, NaN if any is NaN
RECURSIVE MaxFrom(_, _, _)
MaxFrom(v, i, acc) ==
    IF i > Len(v) THEN acc
    ELSE Only({MaxFrom(v, i + 1, a) : a \in {Max2(acc, v[i])}})

MathMax(v) == Only({MaxFrom(u, 1, NegInf) : u \in {v}})

----------------------------------------------------------------------------
(* Vectors and matrices (tuples of numbers, tuples of rows) *)

RECURSIVE SumFrom(_, _, _)
SumFrom(v, i, acc) ==
    IF i > Len(v) THEN acc
    ELSE Only({SumFrom(v, i + 1, a) : a \in {AddV(acc, v[i])}})

RSum(v) == Only({SumFrom(u, 1, Zero) : u \in {v}})

\* numeric.dot of two vectors
Dot(x, y) ==
    Only({RSum(Tup([i \in 1..Len(u) |-> MulV(u[i], v[i])])) : u \in {x}, v \in {y}})

VAdd(x, y) == Only({Tup([i \in 1..Len(u) |-> AddV(u[i], v[i])]) : u \in {x}, v \in {y}})
VSub(x, y) == Only({Tup([i \in 1..Len(u) |-> RSub(u[i], v[i])]) : u \in {x}, v \in {y}})
VScale(c, x) == Only({Tup([i \in 1..Len(v) |-> MulV(u, v[i])]) : u \in {c}, v \in {x}})
VRep(k, x) == Only({Tup([i \in 1..k |-> u]) : u \in {x}})
AllFinite(v) == Only({\A i \in 1..Len(u) : isFinite(u[i]) : u \in {v}})
NumVec(v) == Tup([i \in 1..Len(v) |-> Num(v[i])])
UnitVec(k, i) == Tup([j \in 1..k |-> IF j = i THEN One ELSE Zero])

\* the first row of a with a non-zero entry in column 1, or 0
Pivot(a) ==
    Only({IF piv = {} THEN 0 ELSE CHOOSE q \in piv : \A s \in piv : q <= s :
          piv \in {{r \in 1..Len(a) : a[r][1][1] # 0}}})

\* rows other than r with column 1 eliminated by row r, column 1 dropped
Eliminate(a, b, r) ==
    Only({Only({
            <<Tup([i \in 1..(Len(a) - 1) |->
                     Tup([j \in 1..(Len(a) - 1) |->
                            RSub(a[rest[i]][j + 1], MulV(f[i], a[r][j + 1]))])]),
              Tup([i \in 1..(Len(a) - 1) |-> RSub(b[rest[i]], MulV(f[i], b[r]))])>> :
            f \in {Tup([i \in 1..(Len(a) - 1) |-> DivV(a[rest[i]][1], a[r][1])])}}) :
          rest \in {Tup([i \in 1..(Len(a) - 1) |-> IF i < r THEN i ELSE i + 1])}})

\* the exact solution of the square system a.x = b by Gaussian elimination
\* with row exchange; ok = FALSE when a is singular
RECURSIVE GaussV(_, _)
GaussV(a, b) ==
    IF Len(a) = 0 THEN [ok |-> TRUE, x |-> <<>>]
    ELSE Only({
        IF r = 0 THEN [ok |-> FALSE, x |-> <<>>]
        ELSE Only({
            IF ~sub.ok THEN sub
            ELSE [ok |-> TRUE,
                  x |-> <<RDiv(RSub(b[r],
                                    RSum(Tup([j \in 1..(Len(a) - 1) |->
                                                MulV(a[r][j + 1], sub.x[j])]))),
                               a[r][1])>> \o sub.x] :
            sub \in {Only({GaussV(e[1], e[2]) : e \in {Eliminate(a, b, r)}})}}) :
        r \in {Pivot(a)}})

\* numeric.transpose
Transpose(a) ==
    Only({IF u = <<>> THEN <<>>
          ELSE Tup([j \in 1..Len(u[1]) |-> Tup([i \in 1..Len(u) |-> u[i][j]])]) :
          u \in {a}})

\* numeric.dot of two matrices
MatMul(a, b) ==
    Only({Tup([i \in 1..Len(u) |-> Tup([j \in 1..Len(bt) |-> Dot(u[i], bt[j])])]) :
          u \in {a}, bt \in {Transpose(b)}})

\* numeric.inv: column j of the inverse solves a.x = e_j; NaN entries when
\* a is singular
MatInv(a) ==
    Only({Only({Tup([i \in 1..Len(u) |->
                       Tup([j \in 1..Len(u) |->
                              IF cols[j].ok THEN cols[j].x[i] ELSE NaN])]) :
                cols \in {Tup([j \in 1..Len(u) |-> GaussV(u, UnitVec(Len(u), j))])}}) :
          u \in {a}})

\* numeric.solve(a, b).  The library is not part of the repository: it is an
\* LU solver, modelled as the exact solution when every entry is finite and
\* a is non-singular, and as a vector of NaN otherwise.
numericSolve(a, b) ==
    Only({Only({IF g.ok THEN g.x ELSE VRep(Len(v), NaN) :
                g \in {IF AllFinite(v) /\ \A i \in 1..Len(u) : AllFinite(u[i])
                       THEN GaussV(u, v)
                       ELSE [ok |-> FALSE, x |-> <<>>]}}) :
          u \in {a}, v \in {b}})

----------------------------------------------------------------------------
(* Instruments: [type, T] with type "Fra" or "LogDf" and maturity T *)

Fra(T) == [type |-> "Fra", T |-> T]
LogDf(T) == [type |-> "LogDf", T |-> T]
maturity(instrument) == instrument.T

----------------------------------------------------------------------------
(* DiscreteModel *)

\* the second-difference operator L of the constructor, (n-1) rows of n+1
DiscreteL(n) ==
    Tup([i \in 1..(n - 1) |->
           Tup([j \in 1..(n + 1) |->
                  IF j = i \/ j = i + 2 THEN One
                  ELSE IF j = i + 1 THEN Num(-2) ELSE Zero])])

\* new DiscreteModel(maturity, n, covar): H = L' inv(covar) L
DiscreteModel(T, n, covar) ==
    [kind |-> "Discrete", maturity |-> T, n |-> n,
     hasConstraints |-> TRUE,
     P |-> <<UnitVec(n + 1, 1)>>, q |-> <<Zero>>,
     hasQuadratic |-> TRUE,
     H |-> MatMul(MatMul(Transpose(DiscreteL(n)), MatInv(covar)), DiscreteL(n)),
     ts |-> <<>>, C |-> <<>>]

\* the interpolation branch of DiscreteModel.discount for a fractional k
DiscreteInterpolate(x, k, p) ==
    Only({[err |-> "none",
           F |-> RAdd(MulV(x[k1 + 1], a), MulV(x[k1 + 2], b)),
           w |-> Tup([j \in 1..p |-> IF j = k1 + 1 THEN a
                                     ELSE IF j = k1 + 2 THEN b ELSE Zero])] :
          k1 \in {k[1] \div k[2]},
          a \in {RSub(Num((k[1] \div k[2]) + 1), k)},
          b \in {RSub(One, RSub(Num((k[1] \div k[2]) + 1), k))}})

\* DiscreteModel.discount(t, gradient) in log space: F with df = exp(-F), and
\* the weights w with gradient = -df * w; err names the RangeError thrown
DiscreteLogDiscount(mdl, x, t) ==
    Only({IF LtV(k, Zero)
          THEN [err |-> "RangeError: t cannot be negative", F |-> NaN, w |-> <<>>]
          ELSE IF LtV(Num(mdl.n), k)
          THEN [err |-> "RangeError: cannot extrapolate", F |-> NaN, w |-> <<>>]
          ELSE IF ~isFinite(k)
          THEN [err |-> "none", F |-> NaN, w |-> VRep(mdl.n + 1, NaN)]
          ELSE IF k[2] = 1
          THEN [err |-> "none", F |-> x[k[1] + 1], w |-> UnitVec(mdl.n + 1, k[1] + 1)]
          ELSE DiscreteInterpolate(x, k, mdl.n + 1) :
          k \in {RDiv(t, Rat(mdl.maturity, mdl.n))}})

----------------------------------------------------------------------------
(* VasicekModel.  Math.log(2) and the irrational power 2^(-1/2) have no     *)
(* exact value here; Ln2 and SqrtHalf are rational stand-ins for them.      *)
(* Mean-reversion speeds are k = Math.log(2) / ts, so exp(-k*t) is          *)
(* 2^(-t/ts), which is exact whenever t/ts is a whole number.               *)

Ln2 == <<7, 10>>
SqrtHalf == <<7, 10>>
VasicekW == <<11, 400>>

RECURSIVE Pow2(_)
Pow2(e) == IF e = 0 THEN 1 ELSE 2 * Pow2(e - 1)

\* Math.exp(-k*t) for k = Math.log(2)/ts: 2^(-q) with q = t/ts
ExpNeg(q) ==
    CASE q[2] = 1 /\ q[1] >= 0 -> <<1, Pow2(q[1])>>
      [] q[2] = 2 /\ q[1] >= 0 -> MulV(SqrtHalf, <<1, Pow2(q[1] \div 2)>>)

\* new VasicekModel(ts): k by half-life, C = 0 * identity
VasicekModel(ts) ==
    [kind |-> "Vasicek", maturity |-> 0, n |-> Len(ts),
     hasConstraints |-> FALSE, P |-> <<>>, q |-> <<>>,
     hasQuadratic |-> FALSE, H |-> <<>>,
     ts |-> ts,
     C |-> Tup([i \in 1..Len(ts) |-> Tup([j \in 1..Len(ts) |-> Zero])])]

\* the local function B(k, t) of VasicekModel.discount; kc is k / Math.log(2)
\* and e is Math.exp(-k*t)
VasicekB(kc, e, t) ==
    IF kc = Zero THEN t
    ELSE RDiv(RSub(One, e), RMul(kc, Ln2))

\* the double sum A of VasicekModel.discount
VasicekA(C, kc, e, B1, t) ==
    RSum(Tup([r \in 1..(Len(kc) * Len(kc)) |->
        Only({RMul(RDiv(C[i][j], RMul(MulV(kc[i], Ln2), MulV(kc[j], Ln2))),
                   RAdd(RSub(RSub(t, B1[i]), B1[j]),
                        VasicekB(AddV(kc[i], kc[j]), MulV(e[i], e[j]), t))) :
              i \in {((r - 1) \div Len(kc)) + 1}, j \in {((r - 1) % Len(kc)) + 1}})]))

\* VasicekModel.discount(t, gradient) in log space
VasicekLogDiscount(mdl, x, t) ==
    Only({Only({
        [err |-> "none",
         F |-> RAdd(RSub(MulV(VasicekW, t), RMul(<<1, 2>>, VasicekA(mdl.C, kc, e, B1, t))),
                    Dot(B1, x)),
         w |-> B1] :
        B1 \in {Tup([i \in 1..mdl.n |-> VasicekB(kc[i], e[i], t)])}}) :
      kc \in {Tup([i \in 1..mdl.n |-> DivV(One, mdl.ts[i])])},
      e \in {Tup([i \in 1..mdl.n |-> ExpNeg(DivV(t, mdl.ts[i]))])}})

----------------------------------------------------------------------------
(* BSpline.  Knots are whole numbers; x and the basis values are exact     *)
(* rationals.  Knot indices are 0-based as in the source: Knot(xs, i) is   *)
(* xs[i].                                                                  *)

\* the fields of a BSpline object before the constructor has stored them
Unset == [xs |-> <<>>, p |-> 0]

RECURSIVE SortInsert(_, _)
SortInsert(sorted, v) ==
    IF sorted = <<>> THEN <<v>>
    ELSE IF v < Head(sorted) THEN <<v>> \o sorted
    ELSE <<Head(sorted)>> \o SortInsert(Tail(sorted), v)

\* the copy without the sort
SortNumKeepingOrder(xs) == xs

\* xs.slice().sort((a, b) => (a - b))
RECURSIVE SortNum(_)
SortNum(xs) ==
    IF xs = <<>> THEN <<>>
    ELSE SortInsert(SortNum(SubSeq(xs, 1, Len(xs) - 1)), xs[Len(xs)])

\* p times xs.splice(0, 0, xs[0]); xs.push(xs[xs.length - 1])
AddMultiKnots(xs, p) ==
    [i \in 1..p |-> xs[1]] \o xs \o [i \in 1..p |-> xs[Len(xs)]]

KnotCountError == "Knot vector must contain at least 2 elements."
DegreeLowError == "Spline degree must be at least 1."
DegreeHighError == "Spline degree must be no greater than number of points - 1"

\* BSplineNew with the degree compared with the supplied points
BSplineNewCheckingSupplied(xs, degree, addMultiKnots) ==
    IF Len(xs) < 2 THEN [err |-> KnotCountError, obj |-> Unset]
    ELSE IF degree < 1 THEN [err |-> DegreeLowError, obj |-> Unset]
    ELSE IF degree > Len(xs) - 1 THEN [err |-> DegreeHighError, obj |-> Unset]
    ELSE Only({[err |-> "none", obj |-> [xs |-> ks, p |-> degree]] :
               ks \in {IF addMultiKnots THEN AddMultiKnots(SortNum(xs), degree)
                       ELSE SortNum(xs)}})

\* new BSpline(xs, degree, addMultiKnots): the error thrown, or the fields
\* stored by the last two statements
BSplineNew(xs, degree, addMultiKnots) ==
    IF Len(xs) < 2 THEN [err |-> KnotCountError, obj |-> Unset]
    ELSE IF degree < 1 THEN [err |-> DegreeLowError, obj |-> Unset]
    ELSE Only({IF degree > Len(ks) - 1
               THEN [err |-> DegreeHighError, obj |-> Unset]
               ELSE [err |-> "none", obj |-> [xs |-> ks, p |-> degree]] :
               ks \in {IF addMultiKnots THEN AddMultiKnots(SortNum(xs), degree)
                       ELSE SortNum(xs)}})

\* degree() and basisCount()
degree(b) == b.p
basisCount(b) == Len(b.xs) - 1 - degree(b)

Knot(xs, i) == Num(xs[i + 1])

\* N0 without the case of the last knot
N0RightOpen(i, xs, x) ==
    IF Knot(xs, i) = Knot(xs, i + 1) THEN Zero
    ELSE IF ~LtV(x, Knot(xs, i)) /\ LtV(x, Knot(xs, i + 1)) THEN One
    ELSE Zero

\* BSpline.N(i, 0, xs, x): the branch p == 0
N0(i, xs, x) ==
    IF Knot(xs, i) = Knot(xs, i + 1) THEN Zero
    ELSE IF ~LtV(x, Knot(xs, i)) /\ LtV(x, Knot(xs, i + 1)) THEN One
    ELSE IF x = Knot(xs, i + 1) /\ x = Knot(xs, Len(xs) - 1) THEN One
    ELSE Zero

\* N with the second term weighted by w2 in place of 1 - w2
RECURSIVE NWeightingByW2(_, _, _, _)
NWeightingByW2(i, p, xs, x) ==
    IF p = 0
    THEN N0(i, xs, x)
    ELSE Only({RAdd(RMul(w1, NWeightingByW2(i, p - 1, xs, x)),
                    RMul(w2, NWeightingByW2(i + 1, p - 1, xs, x))) :
               w1 \in {IF Knot(xs, i + p) = Knot(xs, i) THEN Zero
                       ELSE RDiv(RSub(x, Knot(xs, i)),
                                 RSub(Knot(xs, i + p), Knot(xs, i)))},
               w2 \in {IF Knot(xs, i + 1 + p) = Knot(xs, i + 1) THEN Zero
                       ELSE RDiv(RSub(x, Knot(xs, i + 1)),
                                 RSub(Knot(xs, i + 1 + p), Knot(xs, i + 1)))}})

\* BSpline.N(i, p, xs, x)
RECURSIVE N(_, _, _, _)
N(i, p, xs, x) ==
    IF p = 0
    THEN N0(i, xs, x)
    ELSE Only({RAdd(RMul(w1, N(i, p - 1, xs, x)),
                    RMul(RSub(One, w2), N(i + 1, p - 1, xs, x))) :
               w1 \in {IF Knot(xs, i + p) = Knot(xs, i) THEN Zero
                       ELSE RDiv(RSub(x, Knot(xs, i)),
                                 RSub(Knot(xs, i + p), Knot(xs, i)))},
               w2 \in {IF Knot(xs, i + 1 + p) = Knot(xs, i + 1) THEN Zero
                       ELSE RDiv(RSub(x, Knot(xs, i + 1)),
                                 RSub(Knot(xs, i + 1 + p), Knot(xs, i + 1)))}})

\* dN testing the degree before the order
RECURSIVE dNDegreeTestedFirst(_, _, _, _, _)
dNDegreeTestedFirst(i, p, xs, x, d) ==
    IF p = 0 THEN NaN
    ELSE IF d = 0 THEN N(i, p, xs, x)
    ELSE Only({RSub(RMul(RDiv(Num(p), v1), dNDegreeTestedFirst(i, p - 1, xs, x, d - 1)),
                    RMul(RDiv(Num(p), v2), dNDegreeTestedFirst(i + 1, p - 1, xs, x, d - 1))) :
               v1 \in {IF RSub(Knot(xs, i + p), Knot(xs, i)) = Zero THEN One
                       ELSE RSub(Knot(xs, i + p), Knot(xs, i))},
               v2 \in {IF RSub(Knot(xs, i + p + 1), Knot(xs, i + 1)) = Zero THEN One
                       ELSE RSub(Knot(xs, i + p + 1), Knot(xs, i + 1))}})

\* BSpline.dN(i, p, xs, x, d)
RECURSIVE dN(_, _, _, _, _)
dN(i, p, xs, x, d) ==
    IF d = 0 THEN N(i, p, xs, x)
    ELSE IF p = 0 THEN NaN
    ELSE Only({RSub(RMul(RDiv(Num(p), v1), dN(i, p - 1, xs, x, d - 1)),
                    RMul(RDiv(Num(p), v2), dN(i + 1, p - 1, xs, x, d - 1))) :
               v1 \in {IF RSub(Knot(xs, i + p), Knot(xs, i)) = Zero THEN One
                       ELSE RSub(Knot(xs, i + p), Knot(xs, i))},
               v2 \in {IF RSub(Knot(xs, i + p + 1), Knot(xs, i + 1)) = Zero THEN One
                       ELSE RSub(Knot(xs, i + p + 1), Knot(xs, i + 1))}})

RangeErrorX == "x is outside the range covered by this spline."
OrderError == "order must be between 0 and p"

\* evaluate(x, order): the string thrown, or the vector c of m entries
evaluate(b, x, order) ==
    Only({IF ~(~LtV(x, Knot(b.xs, 0)) /\ ~LtV(Knot(b.xs, m), x))
          THEN [err |-> RangeErrorX, c |-> <<>>]
          ELSE IF ~(order >= 0 /\ order <= b.p)
          THEN [err |-> OrderError, c |-> <<>>]
          ELSE [err |-> "none",
                c |-> Tup([k \in 1..m |-> dN(k - 1, b.p, b.xs, x, order)])] :
          m \in {basisCount(b)}})

----------------------------------------------------------------------------
(* SplineModel.  A condition is [knotIndex, derivOrder, derivValue]; the    *)
(* model is a record of the shape of the other models, with the wrapped     *)
(* basis in spline and the length of the weights in n.                      *)

TooFewMaturities == "RangeError: Must supply at least 2 maturities"
DegreeRangeError == "RangeError: Spline degree out of range."
ConditionCountError == "RangeError: Expects p - 1 boundary conditions."

\* a derivValue left out of a condition, and the default of the
\* destructuring `derivValue = 0`
Undefined == <<>>
DerivValue(cond) == IF cond.derivValue = Undefined THEN Zero ELSE cond.derivValue

\* ConditionRows with spline.evaluate(0) as the first row
ConditionRowsTrivialFirst(spline, ts, conditions) ==
    Tup([i \in 1..(Len(conditions) + 1) |->
           IF i = 1 THEN evaluate(spline, Zero, 0)
           ELSE Only({IF k >= 0 /\ k < Len(ts)
                      THEN evaluate(spline, Num(ts[k + 1]), conditions[i - 1].derivOrder)
                      ELSE [err |-> RangeErrorX, c |-> <<>>] :
                      k \in {IF conditions[i - 1].knotIndex >= 0
                             THEN conditions[i - 1].knotIndex
                             ELSE Len(ts) + conditions[i - 1].knotIndex}})])

\* the rows of condLHS: spline.evaluate(ts[knotIndex], derivOrder) for each
\* condition (ts[i] of an index outside the array is undefined, which fails
\* the range check of evaluate), then spline.evaluate(0)
ConditionRows(spline, ts, conditions) ==
    Tup([i \in 1..(Len(conditions) + 1) |->
           IF i > Len(conditions) THEN evaluate(spline, Zero, 0)
           ELSE Only({IF k >= 0 /\ k < Len(ts)
                      THEN evaluate(spline, Num(ts[k + 1]), conditions[i].derivOrder)
                      ELSE [err |-> RangeErrorX, c |-> <<>>] :
                      k \in {IF conditions[i].knotIndex >= 0
                             THEN conditions[i].knotIndex
                             ELSE Len(ts) + conditions[i].knotIndex}})])

\* SplineModelNew with the trivial constraint left out
SplineModelNewWithoutTrivialRow(ts, p, conditions) ==
    IF Len(ts) < 2 THEN [err |-> TooFewMaturities, obj |-> <<>>]
    ELSE IF ~(p >= 1 /\ p <= Len(ts) - 1) THEN [err |-> DegreeRangeError, obj |-> <<>>]
    ELSE IF Len(conditions) # p - 1 THEN [err |-> ConditionCountError, obj |-> <<>>]
    ELSE Only({Only({Only({
        IF bad # {}
        THEN [err |-> rows[CHOOSE j \in bad : \A k \in bad : j <= k].err, obj |-> <<>>]
        ELSE [err |-> "none",
              obj |-> [kind |-> "Spline", maturity |-> 0, n |-> Len(ts) + p,
                       hasConstraints |-> TRUE,
                       P |-> Tup([i \in 1..(Len(rows) - 1) |-> rows[i].c]),
                       q |-> Tup([i \in 1..(Len(rows) - 1) |-> DerivValue(conditions[i])]),
                       hasQuadratic |-> FALSE, H |-> <<>>,
                       ts |-> <<>>, C |-> <<>>,
                       spline |-> b.obj]] :
        bad \in {{i \in 1..Len(rows) : rows[i].err # "none"}}}) :
      rows \in {ConditionRows(b.obj, SortNum(<<0>> \o ts), conditions)}}) :
    b \in {BSplineNew(SortNum(<<0>> \o ts), p, TRUE)}})

\* new SplineModel(ts, degree, conditions): the error thrown, or the model
\* with weights of n + p zeros (the state vector) and boundaryConditions
\* [condLHS, condRHS] as P and q
SplineModelNew(ts, p, conditions) ==
    IF Len(ts) < 2 THEN [err |-> TooFewMaturities, obj |-> <<>>]
    ELSE IF ~(p >= 1 /\ p <= Len(ts) - 1) THEN [err |-> DegreeRangeError, obj |-> <<>>]
    ELSE IF Len(conditions) # p - 1 THEN [err |-> ConditionCountError, obj |-> <<>>]
    ELSE Only({Only({Only({
        IF bad # {}
        THEN [err |-> rows[CHOOSE j \in bad : \A k \in bad : j <= k].err, obj |-> <<>>]
        ELSE [err |-> "none",
              obj |-> [kind |-> "Spline", maturity |-> 0, n |-> Len(ts) + p,
                       hasConstraints |-> TRUE,
                       P |-> Tup([i \in 1..Len(rows) |-> rows[i].c]),
                       q |-> Tup([i \in 1..Len(rows) |->
                                    IF i < Len(rows) THEN DerivValue(conditions[i])
                                    ELSE Zero]),
                       hasQuadratic |-> FALSE, H |-> <<>>,
                       ts |-> <<>>, C |-> <<>>,
                       spline |-> b.obj]] :
        bad \in {{i \in 1..Len(rows) : rows[i].err # "none"}}}) :
      rows \in {ConditionRows(b.obj, SortNum(<<0>> \o ts), conditions)}}) :
    b \in {BSplineNew(SortNum(<<0>> \o ts), p, TRUE)}})

\* SplineLogDiscount reading the first derivative of the basis
SplineLogDiscountOfSlope(mdl, x, t) ==
    Only({IF c.err # "none" THEN [err |-> c.err, F |-> NaN, w |-> <<>>]
          ELSE [err |-> "none", F |-> Dot(c.c, x), w |-> c.c] :
          c \in {evaluate(mdl.spline, t, 1)}})

\* SplineModel.discount(t, gradient) in log space: F = dot(c, weights) with
\* df = exp(-F), and gradient = -df * c
SplineLogDiscount(mdl, x, t) ==
    Only({IF c.err # "none" THEN [err |-> c.err, F |-> NaN, w |-> <<>>]
          ELSE [err |-> "none", F |-> Dot(c.c, x), w |-> c.c] :
          c \in {evaluate(mdl.spline, t, 0)}})

----------------------------------------------------------------------------
(* Pricing *)

\* model.discount(t, gradient)
LogDiscount(mdl, x, t) ==
    IF mdl.kind = "Discrete" THEN DiscreteLogDiscount(mdl, x, t)
    ELSE IF mdl.kind = "Spline" THEN SplineLogDiscount(mdl, x, t)
    ELSE VasicekLogDiscount(mdl, x, t)

\* instrument.impliedRate(discount, gradient): Fra is -log(df)/T with
\* gradient -dfGrad/(T*df); LogDf is -log(df) with gradient -dfGrad/df.
\* A non-finite F makes every gradient entry NaN.
impliedRate(mdl, x, inst) ==
    Only({IF d.err # "none" THEN [err |-> d.err, rate |-> NaN, grad |-> <<>>]
          ELSE [err |-> "none",
                rate |-> MulV(d.F, scale),
                grad |-> IF isFinite(d.F) THEN VScale(scale, d.w)
                         ELSE VRep(Len(x), NaN)] :
          d \in {LogDiscount(mdl, x, inst.T)},
          scale \in {IF inst.type = "Fra" THEN DivV(One, inst.T) ELSE One}})

\* InstFwd(maturity) and Swap(maturity)
InstFwd(T) == [type |-> "InstFwd", T |-> T]
Swap(T) == [type |-> "Swap", T |-> T]

\* this._dt of InstFwd, and frequency of Swap.impliedRate
InstFwdDt == Rat(1, 128)
Frequency == Rat(1, 4)

\* df = Math.exp(-F) has no exact value unless F = 0; elsewhere its
\* first-order value 1 - F stands in for it
DfStandIn(F) ==
    IF ~isFinite(F) THEN NaN
    ELSE RSub(One, F)

\* InstFwd.impliedRate(discount): (vEnd - vStart) / dt, the end priced first
InstFwdImpliedRate(mdl, x, T) ==
    Only({IF vEnd.err # "none" THEN [err |-> vEnd.err, rate |-> NaN]
          ELSE IF vStart.err # "none" THEN [err |-> vStart.err, rate |-> NaN]
          ELSE [err |-> "none", rate |-> RDiv(RSub(vEnd.rate, vStart.rate), InstFwdDt)] :
          vEnd \in {impliedRate(mdl, x, LogDf(T))},
          vStart \in {impliedRate(mdl, x, LogDf(RSub(T, InstFwdDt)))}})

\* impliedRate(discount) of a Fra, a LogDf or an InstFwd
ImpliedRateOf(mdl, x, instrument) ==
    IF instrument.type = "InstFwd" THEN InstFwdImpliedRate(mdl, x, instrument.T)
    ELSE Only({[err |-> r.err, rate |-> r.rate] : r \in {impliedRate(mdl, x, instrument)}})

\* accrualFactor without the stub: always the frequency
AccrualFactorOfFullPeriod(f, tt) == f

\* accrualFactor = Math.min(frequency, t)
AccrualFactor(f, tt) == IF LtV(tt, f) THEN tt ELSE f

----------------------------------------------------------------------------
(* fitYieldCurve *)

MaxIter == 100
EpsInv == 100000000

\* a loop that runs one more pass before it ends
LoopEndsOnePassLater(it) == it > MaxIter
\* for (let iter = 1; iter <= 100; ++iter): the pass with iter = it is the
\* last one, the loop ends right after its update
LoopEndsAfter(it) == it + 1 > MaxIter

\* m: model.constraints ? model.constraints()[1].length : 0
NumConstraints(mdl) == IF mdl.hasConstraints THEN Len(mdl.q) ELSE 0

\* H: model.quadratic ? model.quadratic() : []
Quadratic(mdl) == IF mdl.hasQuadratic THEN mdl.H ELSE <<>>

\* FitPrecondition with the count check as `n > marketRates.length`
FitPreconditionFewerRates(mdl, x, insts, rates) ==
    Only({IF n > Len(rates)
          THEN "RangeError: instruments and marketRates must have the same length."
          ELSE IF n + m > p
          THEN "RangeError: There are more constraints than state variables."
          ELSE IF Len(H) # 0 /\ Len(H) # p
          THEN "RangeError: Quadratic matrix must have the same size as state vector."
          ELSE IF n + m < p /\ Len(H) = 0
          THEN "RangeError: Quadratic coefficients must be supplied when there are not enough constraints."
          ELSE "none" :
          p \in {Len(x)}, n \in {Len(insts)}, m \in {NumConstraints(mdl)},
          H \in {Quadratic(mdl)}})

\* FitPrecondition with the second check as `n > p`, the constraint rows
\* left out of the count
FitPreconditionNoConstraintCount(mdl, x, insts, rates) ==
    Only({IF n # Len(rates)
          THEN "RangeError: instruments and marketRates must have the same length."
          ELSE IF n > p
          THEN "RangeError: There are more constraints than state variables."
          ELSE IF Len(H) # 0 /\ Len(H) # p
          THEN "RangeError: Quadratic matrix must have the same size as state vector."
          ELSE IF n + m < p /\ Len(H) = 0
          THEN "RangeError: Quadratic coefficients must be supplied when there are not enough constraints."
          ELSE "none" :
          p \in {Len(x)}, n \in {Len(insts)}, m \in {NumConstraints(mdl)},
          H \in {Quadratic(mdl)}})

\* the four checks before the loop, in order; "none" when all pass
FitPrecondition(mdl, x, insts, rates) ==
    Only({IF n # Len(rates)
          THEN "RangeError: instruments and marketRates must have the same length."
          ELSE IF n + m > p
          THEN "RangeError: There are more constraints than state variables."
          ELSE IF Len(H) # 0 /\ Len(H) # p
          THEN "RangeError: Quadratic matrix must have the same size as state vector."
          ELSE IF n + m < p /\ Len(H) = 0
          THEN "RangeError: Quadratic coefficients must be supplied when there are not enough constraints."
          ELSE "none" :
          p \in {Len(x)}, n \in {Len(insts)}, m \in {NumConstraints(mdl)},
          H \in {Quadratic(mdl)}})

PreconditionErrors ==
    {"RangeError: instruments and marketRates must have the same length.",
     "RangeError: There are more constraints than state variables.",
     "RangeError: Quadratic matrix must have the same size as state vector.",
     "RangeError: Quadratic coefficients must be supplied when there are not enough constraints."}

NewtonError == "Error: Newton method cannot find solution"

\* the tolerance test without Math.abs: Math.max.apply(null, diff) < eps
ToleranceMetSigned(diff) == LtTol(MathMax(diff), EpsInv)

\* the tolerance test: maxDiff = Math.max.apply(null, diff.map(Math.abs));
\* maxDiff < eps
ToleranceMet(diff) ==
    LtTol(MathMax(Tup([i \in 1..Len(diff) |-> MathAbs(diff[i])])), EpsInv)

\* the right-hand side extraValues[i], as if every call started from a
\* state with P.x = 0
ConstraintRhsAbsolute(mdl, x, i) == mdl.q[i]

\* right-hand side of constraint row i: extraValues[i] - dot(C[n+i], state)
ConstraintRhs(mdl, x, i) == RSub(mdl.q[i], Dot(mdl.P[i], x))

\* an entry of H as setBlock and dot read it: a missing entry is undefined,
\* which arithmetic turns into NaN
HEntry(H, i, j) == IF j <= Len(H[i]) THEN H[i][j] ELSE NaN

\* KktMatrix without the transpose of A to the right of H
KktMatrixWithoutTranspose(H, A, p) ==
    Tup([i \in 1..(p + Len(A)) |->
           Tup([j \in 1..(p + Len(A)) |->
                  IF i <= p /\ j <= p THEN HEntry(H, i, j)
                  ELSE IF i > p /\ j <= p THEN A[i - p][j]
                  ELSE Zero])])

\* the matrix CC of the quadratic branch: H upper left, the rows A below it,
\* the transpose of A to its right, zero elsewhere
KktMatrix(H, A, p) ==
    Tup([i \in 1..(p + Len(A)) |->
           Tup([j \in 1..(p + Len(A)) |->
                  IF i <= p /\ j <= p THEN HEntry(H, i, j)
                  ELSE IF i > p /\ j <= p THEN A[i - p][j]
                  ELSE IF i <= p /\ j > p THEN A[j - p][i]
                  ELSE Zero])])

\* bb = 0 - H.state, followed by b
\* (numeric.dot multiplies row i of H with the state over the row's length)
KktRhs(H, x, b, p) ==
    Tup([i \in 1..p |->
           RSub(Zero, RSum(Tup([j \in 1..Len(H[i]) |->
                                  IF j <= p THEN MulV(H[i][j], x[j]) ELSE NaN])))]) \o b

\* the step of one loop iteration after pricing: delta = solve(C, b).slice(0, p)
NewtonDelta(mdl, x, grads, diff) ==
    Only({SubSeq(IF Len(H) > 0
                 THEN numericSolve(KktMatrix(H, A, Len(x)), KktRhs(H, x, b, Len(x)))
                 ELSE numericSolve(A, b), 1, Len(x)) :
          H \in {Quadratic(mdl)},
          A \in {grads \o Tup([i \in 1..NumConstraints(mdl) |-> mdl.P[i]])},
          b \in {diff \o Tup([i \in 1..NumConstraints(mdl) |-> ConstraintRhs(mdl, x, i)])}})

\* FitDecide with the tolerance tested in the first iteration too
FitDecideFromFirst(mdl, x, rates, it, pr) ==
    Only({IF ToleranceMet(diff)
          THEN [what |-> "returned", err |-> "none", priced |-> Len(pr), delta |-> <<>>]
          ELSE [what |-> "update", err |-> "none", priced |-> Len(pr),
                delta |-> NewtonDelta(mdl, x, Tup([i \in 1..Len(pr) |-> pr[i].grad]), diff)] :
          diff \in {Tup([i \in 1..Len(pr) |-> RSub(rates[i], pr[i].rate)])}})

\* the loop body at counter it once every instrument is priced (pr)
FitDecide(mdl, x, rates, it, pr) ==
    Only({IF it > 1 /\ ToleranceMet(diff)
          THEN [what |-> "returned", err |-> "none", priced |-> Len(pr), delta |-> <<>>]
          ELSE [what |-> "update", err |-> "none", priced |-> Len(pr),
                delta |-> NewtonDelta(mdl, x, Tup([i \in 1..Len(pr) |-> pr[i].grad]), diff)] :
          diff \in {Tup([i \in 1..Len(pr) |-> RSub(rates[i], pr[i].rate)])}})

\* one pass of the loop body at counter it, without the state update:
\*   what = "threw"    pricing instrument number `priced + 1` threw err
\*   what = "returned" the tolerance test passed
\*   what = "update"   delta is to be added to the state
FitPass(mdl, x, insts, rates, it) ==
    Only({Only({
        IF bad # {}
        THEN Only({[what |-> "threw", err |-> pr[i].err, priced |-> i - 1, delta |-> <<>>] :
                   i \in {CHOOSE j \in bad : \A k \in bad : j <= k}})
        ELSE FitDecide(mdl, x, rates, it, pr) :
        bad \in {{i \in 1..Len(pr) : pr[i].err # "none"}}}) :
      pr \in {Tup([i \in 1..Len(insts) |-> impliedRate(mdl, x, insts[i])])}})

----------------------------------------------------------------------------
(* PanelData: a table is a tuple of rows *)

numRows(table) == Len(table)
numCols(table) == IF Len(table) > 0 THEN Len(table[1]) ELSE 0

DiffError == "RangeError: d must be less than number of observations"
CovarianceTypeError == "TypeError: cannot read property of undefined"

\* diff(table) with d = 1: the first differences of consecutive rows
diff(table) ==
    IF 1 >= numRows(table) THEN [err |-> DiffError, data |-> <<>>]
    ELSE [err |-> "none",
          data |-> Tup([i \in 1..(Len(table) - 1) |-> VSub(table[i + 1], table[i])])]

\* the element table[i][k] as the loop of covariance reads it: beyond the
\* end of row i it is undefined, which isFinite rejects like NaN
Cell(table, i, k) == IF k <= Len(table[i]) THEN table[i][k] ELSE NaN

\* one entry of covariance(table): i and j index table[i] and table[j], k
\* runs over 0..nobs-1 inside them
CovarianceEntry(table, i, j, nobs) ==
    Only({Only({RDiv(RSub(sumXY, RDiv(RMul(sumX, sumY), Num(Cardinality(ks)))),
                     Num(Cardinality(ks) - 1)) :
                sumX \in {RSum(Tup([k \in 1..nobs |->
                              IF k \in ks THEN table[i][k] ELSE Zero]))},
                sumY \in {RSum(Tup([k \in 1..nobs |->
                              IF k \in ks THEN table[j][k] ELSE Zero]))},
                sumXY \in {RSum(Tup([k \in 1..nobs |->
                              IF k \in ks THEN MulV(table[i][k], table[j][k]) ELSE Zero]))}}) :
          ks \in {{k \in 1..nobs : isFinite(Cell(table, i, k))
                                   /\ isFinite(Cell(table, j, k))}}})

\* covariance(table): nobs = numRows, nvar = numCols; reading table[j] for
\* j >= nobs is a TypeError
covariance(table) ==
    IF numCols(table) > numRows(table)
    THEN [err |-> CovarianceTypeError, C |-> <<>>]
    ELSE [err |-> "none",
          C |-> Tup([i \in 1..numCols(table) |->
                       Tup([j \in 1..numCols(table) |->
                              IF i <= j
                              THEN CovarianceEntry(table, i, j, numRows(table))
                              ELSE CovarianceEntry(table, j, i, numRows(table))])])]

----------------------------------------------------------------------------
(* Model templates and the calibration loops *)

CovTolInv == 1000000
AnnualFactor == 250
VasicekOuterLimit == 50

SizeError == "RangeError: Instruments must match marketRates in size"
CalibrationError == "Error: Calibration failed to converge"
VasicekConstructorError == "Must supply at least one maturity."

VasicekModelTemplate(ts) == [kind |-> "Vasicek", ts |-> ts, maturity |-> 0, interval |-> 0]
DiscreteNonParModelTemplate(T, interval) ==
    [kind |-> "DiscreteNonPar", ts |-> <<>>, maturity |-> T, interval |-> interval]
\* a template of the YieldCurveModelTemplate interface whose createModel
\* deletes from the array the instruments it does not want to fit, those
\* with a maturity outside ts, and builds the model of the discrete template
SelectiveModelTemplate(ts, T, interval) ==
    [kind |-> "Selective", ts |-> ts, maturity |-> T, interval |-> interval]

\* the covar member a template is constructed with: 0 * identity(n) for
\* Vasicek, identity(n + 1) with [0][0] = 0 for DiscreteNonPar
TemplateCovar(t) ==
    IF t.kind = "Vasicek"
    THEN Tup([i \in 1..Len(t.ts) |-> Tup([j \in 1..Len(t.ts) |-> Zero])])
    ELSE Tup([i \in 1..((t.maturity \div t.interval) + 1) |->
                Tup([j \in 1..((t.maturity \div t.interval) + 1) |->
                       IF i = j /\ i > 1 THEN One ELSE Zero])])

\* the instruments VasicekModelTemplate.createModel leaves in the array
VasicekKept(t, insts) ==
    SelectSeq(insts, LAMBDA inst : \E i \in 1..Len(t.ts) : t.ts[i] = maturity(inst))

\* VasicekModelTemplate.createModel: err is what the VasicekModel
\* constructor throws
VasicekCreateModel(t, covar, insts) ==
    Only({IF Len(kept) < 1
          THEN [err |-> VasicekConstructorError, model |-> <<>>, instruments |-> kept]
          ELSE [err |-> "none",
                model |-> [VasicekModel(Tup([i \in 1..Len(kept) |-> maturity(kept[i])]))
                             EXCEPT !.C = Tup([i \in 1..Len(kept) |->
                                                 Tup([j \in 1..Len(kept) |-> covar[i][j]])])],
                instruments |-> kept] :
          kept \in {VasicekKept(t, insts)}})

\* LogDfCovarToFwdCovar(ExplicitCovar(ts, covarMatrix), interval) at grid
\* points number i and j (covarMatrix is indexed from the grid point 0)
FwdCovar(covarMatrix, i, j, interval) ==
    RDiv(RSub(RSub(RAdd(covarMatrix[i + 1][j + 1], covarMatrix[i][j]),
                   covarMatrix[i + 1][j]), covarMatrix[i][j + 1]),
         Num(interval * interval))

\* DiscreteModelTemplate.createModel for a DiscreteNonParModelTemplate
DiscreteCreateModel(t, covarMatrix, insts) ==
    Only({[err |-> "none",
           model |-> DiscreteModel(t.maturity, n,
                        Tup([i \in 1..(n - 1) |->
                               Tup([j \in 1..(n - 1) |->
                                      FwdCovar(covarMatrix, i, j, t.interval)])])),
           instruments |-> insts] :
          n \in {t.maturity \div t.interval}})

\* createModel of a SelectiveModelTemplate
SelectiveCreateModel(t, covar, insts) ==
    [DiscreteCreateModel(t, covar, insts) EXCEPT !.instruments = VasicekKept(t, insts)]

\* modelTemplate.createModel(instruments)
createModel(t, covar, insts) ==
    IF t.kind = "Vasicek" THEN VasicekCreateModel(t, covar, insts)
    ELSE IF t.kind = "Selective" THEN SelectiveCreateModel(t, covar, insts)
    ELSE DiscreteCreateModel(t, covar, insts)

\* usedMarketRates as calibrate passes it: the whole row
UsedMarketRatesWholeRow(row, insts, used) == row

\* usedMarketRates of calibrateYieldCurveModel: the row without the entries
\* of the instruments that are not among usedInstruments (an entry beyond
\* the end of instruments is not among them either)
UsedMarketRates(row, insts, used) ==
    Only({Tup([r \in 1..Cardinality(keep) |->
                 row[CHOOSE j \in keep : Cardinality({k \in keep : k < j}) = r - 1]]) :
          keep \in {{j \in 1..Len(row) :
                       j <= Len(insts) /\ \E u \in 1..Len(used) : used[u] = insts[j]}}})

\* CovarMaxDiff with a maximum that passes over NaN entries
CovarMaxDiffSkippingNaN(covar, modelCovar) ==
    MathMax(Tup([r \in 1..(Len(modelCovar) * Len(modelCovar)) |->
        Only({IF isNaN(RSub(covar[i][j], modelCovar[i][j])) THEN NegInf
              ELSE MathAbs(RSub(covar[i][j], modelCovar[i][j])) :
              i \in {((r - 1) \div Len(modelCovar)) + 1},
              j \in {((r - 1) % Len(modelCovar)) + 1}})]))

\* maxDiff of the comparison: Math.max over |covar[i][j] - modelCovar[i][j]|
\* for i, j < nf, starting from -Infinity
CovarMaxDiff(covar, modelCovar) ==
    MathMax(Tup([r \in 1..(Len(modelCovar) * Len(modelCovar)) |->
        Only({MathAbs(RSub(covar[i][j], modelCovar[i][j])) :
              i \in {((r - 1) \div Len(modelCovar)) + 1},
              j \in {((r - 1) % Len(modelCovar)) + 1}})]))

\* CovarOverwrite that copies the diagonal only
CovarOverwriteDiagonal(old, covar, nf) ==
    Tup([i \in 1..Len(old) |->
           Tup([j \in 1..Len(old[i]) |->
                  IF i <= nf /\ j = i THEN covar[i][j] ELSE old[i][j]])])

\* the model covariance after the update loop: entries i, j < nf taken from
\* covar, the others kept
CovarOverwrite(old, covar, nf) ==
    Tup([i \in 1..Len(old) |->
           Tup([j \in 1..Len(old[i]) |->
                  IF i <= nf /\ j <= nf THEN covar[i][j] ELSE old[i][j]])])

----------------------------------------------------------------------------
(* State *)

VARIABLES
    model,          \* the YieldCurveModel being fitted (its fixed members)
    state,          \* model.state(): the state vector, updated in place
    instruments,    \* the instruments argument of fitYieldCurve
    marketRates,    \* the marketRates argument of fitYieldCurve
    hasOptions,     \* whether an options object was passed
    numIter,        \* options.numIter; 0 while not written
    pc,             \* "idle", "loop", "returned" or "threw"
    iter,           \* the loop counter of fitYieldCurve
    err,            \* the error thrown by fitYieldCurve, or "none"
    priced,         \* impliedRate calls completed in the current call
    updates,        \* state updates (addeq) made in the current call
    state0,         \* the state vector when the current call began
    exact,          \* the latest update added the exact solution of its system
    calls,          \* fitYieldCurve calls made so far on this model
    noiseLeft,      \* inexact solves still allowed in the current call
    variant,        \* "none", "vasicek" or "generic": the calibration running
    tmpl,           \* the model template
    tmplCovar,      \* the template's structural covariance matrix
    panel,          \* the historical market rates, one row per date
    callerInstruments, \* the caller's instruments array
    calpc,          \* "idle", "create", "fit", "infit", "compare", "returned", "threw"
    outer,          \* the outer loop counter of the calibration
    dateIdx,        \* the next historical date to fit
    stateHistory,   \* the state vectors recorded in this outer iteration
    calMaxDiff,     \* maxDiff of the latest covariance comparison
    calErr,         \* the error the calibration ended with, or "none"
    realized,       \* covar: the annualized realized covariance of this iteration
    ctorArgs,       \* the arguments of new BSpline(xs, degree, addMultiKnots)
    bspline,        \* the BSpline object's fields xs and p; Unset until stored
    bspc,           \* "idle", "new", "built", "threw", "evaluated", "evalThrew"
    bsErr,          \* the string thrown by the constructor or evaluate, or "none"
    evalArgs,       \* the arguments of the latest evaluate(x, order)
    evalRet,        \* what the latest evaluate returned
    smArgs,         \* the arguments of new SplineModel(ts, degree, conditions)
    smpc,           \* "idle", "new", "built" or "threw"
    smErr,          \* the error thrown by the SplineModel constructor, or "none"
    inst,           \* the instrument whose impliedRate is called
    ipc,            \* "idle", "new", "loop", "returned" or "threw"
    loopT,          \* t, the loop variable of Swap.impliedRate
    finalDf,        \* finalDf of Swap.impliedRate
    annuityFactor,  \* annuityFactor of Swap.impliedRate
    payDates,       \* the values of t the loop body has run with, in order
    accrualFactors, \* the accrualFactor of each of them
    rate,           \* what impliedRate returned
    instErr,        \* the error impliedRate ended with, or "none"
    covTable,       \* the table argument of covariance
    covpc,          \* "idle", "new", "returned" or "threw"
    covRet,         \* the matrix covariance returned
    covErr,         \* the error covariance ended with, or "none"
    seriesCollection, \* the argument of GetPanelData: each series a tuple of
                    \* <<date, value>> in ascending date order
    merge,          \* the locals of GetPanelData: enumerators, n, row, date
    dataTable,      \* table.Rows of GetPanelData
    gpdpc,          \* "idle", "new", "loop", "returned" or "threw"
    gpdErr          \* the exception GetPanelData ended with, or "none"

fitVars == <<model, state, instruments, marketRates, hasOptions, numIter, pc,
             iter, err, priced, updates, state0, exact, calls, noiseLeft>>
calVars == <<variant, tmpl, tmplCovar, panel, callerInstruments, calpc, outer,
             dateIdx, stateHistory, calMaxDiff, calErr, realized>>
bsVars == <<ctorArgs, bspline, bspc, bsErr, evalArgs, evalRet>>
smVars == <<smArgs, smpc, smErr>>
instVars == <<inst, ipc, loopT, finalDf, annuityFactor, payDates, accrualFactors,
              rate, instErr>>
covVars == <<covTable, covpc, covRet, covErr>>
gpdVars == <<seriesCollection, merge, dataTable, gpdpc, gpdErr>>
libVars == <<bsVars, smVars, instVars, covVars, gpdVars>>
vars == <<fitVars, calVars, libVars>>

\* no library object is being exercised
BsIdle ==
    /\ ctorArgs = <<>> /\ bspline = Unset /\ bspc = "idle" /\ bsErr = "none"
    /\ evalArgs = <<>> /\ evalRet = <<>>
SmIdle == smArgs = <<>> /\ smpc = "idle" /\ smErr = "none"
InstIdle ==
    /\ inst = <<>> /\ ipc = "idle" /\ loopT = NaN /\ finalDf = NaN
    /\ annuityFactor = Zero /\ payDates = <<>> /\ accrualFactors = <<>>
    /\ rate = NaN /\ instErr = "none"
CovIdle == covTable = <<>> /\ covpc = "idle" /\ covRet = <<>> /\ covErr = "none"
GpdIdle ==
    /\ seriesCollection = <<>> /\ merge = <<>> /\ dataTable = <<>>
    /\ gpdpc = "idle" /\ gpdErr = "none"
LibIdle == BsIdle /\ SmIdle /\ InstIdle /\ CovIdle /\ GpdIdle

----------------------------------------------------------------------------
(* Bounds and inputs *)

MaxCalls == 2
NoiseBudget == 1

\* what an inexact solve adds to one component of delta
SolveNoise == Rat(1, 100)

RateLists ==
    {<<>>, <<Rat(1, 50)>>, <<NaN>>,
     <<Rat(1, 50), Rat(3, 100)>>, <<Rat(3, 100), Rat(3, 100)>>,
     <<Rat(1, 50), NaN>>, <<Rat(1, 50), Rat(3, 100), Rat(3, 100)>>}

InstrumentLists ==
    {<<>>, <<Fra(One)>>,
     <<Fra(One), LogDf(Num(2))>>, <<LogDf(Rat(1, 2)), Fra(Num(2))>>,
     <<Fra(One), Fra(One)>>, <<Fra(One), LogDf(Num(3))>>,
     <<Fra(One), LogDf(Num(2)), LogDf(Rat(1, 2))>>}

\* a DiscreteModel over [0, 2] in two intervals, and objects of the same
\* interface that differ from it in the optional members constraints and
\* quadratic
BaseDiscrete == DiscreteModel(2, 2, <<<<One>>>>)
ConstraintChoices ==
    {[has |-> FALSE, P |-> <<>>, q |-> <<>>],
     [has |-> TRUE, P |-> BaseDiscrete.P, q |-> BaseDiscrete.q],
     [has |-> TRUE, P |-> <<UnitVec(3, 1), UnitVec(3, 3)>>, q |-> <<Zero, Rat(1, 20)>>]}
QuadraticChoices ==
    {[has |-> FALSE, H |-> <<>>],
     [has |-> TRUE, H |-> BaseDiscrete.H],
     [has |-> TRUE, H |-> SubSeq(BaseDiscrete.H, 1, 2)],
     [has |-> TRUE, H |-> [i \in 1..3 |-> SubSeq(BaseDiscrete.H[i], 1, 2)]]}
DiscreteLike ==
    {[BaseDiscrete EXCEPT !.hasConstraints = c.has, !.P = c.P, !.q = c.q,
                          !.hasQuadratic = h.has, !.H = h.H] :
        c \in ConstraintChoices, h \in QuadraticChoices}

VasicekLists == {<<Fra(One)>>, <<Fra(One), Fra(Num(2))>>, <<Fra(Num(2)), Fra(Num(2))>>}

FitInputs ==
    {<<mdl, insts>> : mdl \in DiscreteLike, insts \in InstrumentLists}
    \cup {<<VasicekModel(<<One, Num(2)>>), insts>> : insts \in VasicekLists}

StateLength(mdl) == IF mdl.kind = "Discrete" THEN mdl.n + 1 ELSE mdl.n

----------------------------------------------------------------------------
(* fitYieldCurve as actions *)

CalIdle ==
    /\ variant = "none" /\ tmpl = <<>> /\ tmplCovar = <<>> /\ panel = <<>>
    /\ callerInstruments = <<>> /\ calpc = "idle" /\ outer = 0 /\ dateIdx = 0
    /\ stateHistory = <<>> /\ calMaxDiff = NaN /\ calErr = "none" /\ realized = <<>>

\* a freshly built model (state vector zero) and the instruments to fit
FitInit ==
    /\ \E in \in FitInputs :
          /\ model = in[1]
          /\ instruments = in[2]
          /\ state = VRep(StateLength(in[1]), Zero)
          /\ state0 = VRep(StateLength(in[1]), Zero)
    /\ marketRates = <<>> /\ hasOptions = FALSE /\ numIter = 0
    /\ pc = "idle" /\ iter = 0 /\ err = "none" /\ priced = 0 /\ updates = 0
    /\ exact = FALSE /\ calls = 0 /\ noiseLeft = 0
    /\ CalIdle
    /\ LibIdle

\* EnterFit that zeroes the state vector before it runs the checks
EnterFitResetting(rates, insts, opts) ==
    \E e \in {FitPrecondition(model, VRep(Len(state), Zero), insts, rates)} :
        /\ marketRates' = rates
        /\ instruments' = insts
        /\ hasOptions' = opts
        /\ numIter' = 0
        /\ priced' = 0
        /\ updates' = 0
        /\ state0' = state
        /\ state' = VRep(Len(state), Zero)
        /\ calls' = calls + 1
        /\ noiseLeft' = IF variant = "none" THEN NoiseBudget ELSE 0
        /\ err' = e
        /\ pc' = IF e = "none" THEN "loop" ELSE "threw"
        /\ iter' = IF e = "none" THEN 1 ELSE 0
        /\ UNCHANGED <<model, exact>>

\* entry of fitYieldCurve up to the loop: the checks, then iter = 1.  Inside
\* a calibration the solves are exact: what floating point adds there is
\* added to the covariance (CovarChoices).
EnterFit(rates, insts, opts) ==
    \E e \in {FitPrecondition(model, state, insts, rates)} :
        /\ marketRates' = rates
        /\ instruments' = insts
        /\ hasOptions' = opts
        /\ numIter' = 0
        /\ priced' = 0
        /\ updates' = 0
        /\ state0' = state
        /\ calls' = calls + 1
        /\ noiseLeft' = IF variant = "none" THEN NoiseBudget ELSE 0
        /\ err' = e
        /\ pc' = IF e = "none" THEN "loop" ELSE "threw"
        /\ iter' = IF e = "none" THEN 1 ELSE 0
        /\ UNCHANGED <<model, state, exact>>

\* a caller fits the model, or fits it again from the state the previous
\* fit left (drawBumpResponse)
FitCall ==
    /\ variant = "none"
    /\ pc \in {"idle", "returned"}
    /\ calls < MaxCalls
    /\ \E rates \in RateLists, opts \in BOOLEAN : EnterFit(rates, instruments, opts)
    /\ UNCHANGED <<calVars, libVars>>

\* the vectors an inexact solve may add to delta: nothing, or SolveNoise on
\* one component while the call's allowance lasts
NoiseChoices(delta) ==
    {VRep(Len(delta), Zero)} \cup
    (IF noiseLeft > 0 /\ AllFinite(delta)
     THEN {VScale(SolveNoise, UnitVec(Len(delta), j)) : j \in 1..Len(delta)}
     ELSE {})

\* one iteration of the loop, and the throw that follows the last one
FitIterate ==
    /\ pc = "loop"
    /\ \E r \in {FitPass(model, state, instruments, marketRates, iter)} :
           \/ /\ r.what = "threw"
              /\ pc' = "threw" /\ err' = r.err
              /\ priced' = priced + r.priced
              /\ UNCHANGED <<state, iter, numIter, updates, exact, noiseLeft>>
           \/ /\ r.what = "returned"
              /\ pc' = "returned"
              /\ numIter' = IF hasOptions THEN iter ELSE numIter
              /\ priced' = priced + r.priced
              /\ UNCHANGED <<state, iter, err, updates, exact, noiseLeft>>
           \/ /\ r.what = "update"
              /\ \E noise \in NoiseChoices(r.delta) :
                    /\ state' = VAdd(state, VAdd(r.delta, noise))
                    /\ exact' = (AllFinite(r.delta) /\ AllFinite(state)
                                 /\ noise = VRep(Len(r.delta), Zero))
                    /\ noiseLeft' = IF noise = VRep(Len(r.delta), Zero)
                                    THEN noiseLeft ELSE noiseLeft - 1
              /\ priced' = priced + r.priced
              /\ updates' = updates + 1
              /\ iter' = iter + 1
              /\ pc' = IF LoopEndsAfter(iter) THEN "threw" ELSE "loop"
              /\ err' = IF LoopEndsAfter(iter) THEN NewtonError ELSE "none"
              /\ UNCHANGED numIter
    /\ UNCHANGED <<model, instruments, marketRates, hasOptions, state0, calls>>
    /\ UNCHANGED <<libVars, variant, tmpl, tmplCovar, panel, callerInstruments, outer,
                   dateIdx, stateHistory, calMaxDiff, calErr, realized>>
    /\ calpc' = calpc

FitNext == FitCall \/ (variant = "none" /\ FitIterate)
FitSpec == FitInit /\ [][FitNext]_vars

----------------------------------------------------------------------------
(* Calibration inputs *)

\* what floating point may add to the [0][0] entry of a finite realized
\* covariance
CovarNoise == Rat(1, 1000)

Row_a == <<Rat(1, 50), Rat(3, 100)>>
Row_b == <<Rat(3, 100), Rat(3, 100)>>
Row_c == <<Rat(1, 50), Rat(1, 50)>>

\* historical panels with two series
Panels2 ==
    {<<Row_a>>, <<Row_a, Row_b>>, <<Row_a, Row_b, Row_c>>, <<Row_a, Row_a, Row_a>>,
     <<Row_a, <<Rat(1, 50), NaN>>, Row_b>>, <<Row_a, Row_b, Row_c, Row_a>>}
\* historical panels with one series
Panels1 ==
    {<<>>, <<<<Rat(1, 50)>>>>, <<<<Rat(1, 50)>>, <<Rat(3, 100)>>>>,
     <<<<Rat(1, 50)>>, <<Rat(3, 100)>>, <<Rat(1, 50)>>, <<Rat(3, 100)>>>>}
\* a historical panel with three series
Panels3 ==
    {<<<<Rat(1, 50), Rat(3, 100), Rat(3, 100)>>, <<Rat(3, 100), Rat(3, 100), Rat(1, 50)>>,
       <<Rat(1, 50), Rat(1, 50), Rat(1, 50)>>>>}

\* template, caller's instruments, panel
VasicekInputs ==
    {<<VasicekModelTemplate(<<One, Num(2)>>), <<Fra(One), Fra(Num(2))>>, pn>> : pn \in Panels2}
    \cup {<<VasicekModelTemplate(<<One>>), <<Fra(One)>>, pn>> : pn \in Panels1}
    \cup {<<VasicekModelTemplate(<<One, Num(2)>>), <<Fra(One)>>, pn>> : pn \in {<<Row_a, Row_b>>}}
    \cup {<<VasicekModelTemplate(<<One, Num(2)>>), <<Fra(One), Fra(Num(2)), Fra(Num(3))>>, pn>> :
            pn \in Panels3}
    \cup {<<VasicekModelTemplate(<<One>>), <<Fra(Num(2))>>, pn>> : pn \in {<<<<Rat(1, 50)>>>>}}
GenericInputs ==
    {<<DiscreteNonParModelTemplate(2, 1), <<Fra(One), LogDf(Num(2))>>, pn>> : pn \in Panels2}
    \cup {<<DiscreteNonParModelTemplate(2, 1), <<LogDf(Num(2))>>, pn>> : pn \in Panels1}
    \cup {<<DiscreteNonParModelTemplate(2, 1), <<Fra(One), LogDf(Num(2)), LogDf(One)>>, pn>> :
            pn \in Panels3}
    \cup {<<SelectiveModelTemplate(<<Num(2)>>, 2, 1), <<Fra(One), LogDf(Num(2))>>, pn>> :
            pn \in Panels2}
    \cup {<<SelectiveModelTemplate(<<One, Num(2)>>, 2, 1),
             <<Fra(One), LogDf(Rat(1, 2)), LogDf(Num(2))>>, pn>> : pn \in Panels3}

----------------------------------------------------------------------------
(* VasicekModelTemplate.calibrate and calibrateYieldCurveModel as actions *)

CalInit ==
    /\ \E v \in {"vasicek", "generic"} :
          /\ variant = v
          /\ \E in \in (IF v = "vasicek" THEN VasicekInputs ELSE GenericInputs) :
                /\ tmpl = in[1]
                /\ tmplCovar = TemplateCovar(in[1])
                /\ callerInstruments = in[2]
                /\ panel = in[3]
    /\ calpc = "idle" /\ outer = 0 /\ dateIdx = 0 /\ stateHistory = <<>>
    /\ calMaxDiff = NaN /\ calErr = "none" /\ realized = <<>>
    /\ model = <<>> /\ state = <<>> /\ state0 = <<>> /\ instruments = <<>>
    /\ marketRates = <<>> /\ hasOptions = FALSE /\ numIter = 0
    /\ pc = "idle" /\ iter = 0 /\ err = "none" /\ priced = 0 /\ updates = 0
    /\ exact = FALSE /\ calls = 0 /\ noiseLeft = 0
    /\ LibIdle

\* entry of either calibration up to its loop: the size check, then iter = 1
CalCall ==
    /\ calpc = "idle" /\ variant # "none"
    /\ IF numCols(panel) # Len(callerInstruments)
       THEN calpc' = "threw" /\ calErr' = SizeError /\ outer' = outer
       ELSE calpc' = "create" /\ calErr' = calErr /\ outer' = 1
    /\ UNCHANGED <<fitVars, libVars, variant, tmpl, tmplCovar, panel, callerInstruments,
                   dateIdx, stateHistory, calMaxDiff, realized>>

\* top of an outer iteration: stateHistory = [], createModel.  calibrate
\* hands createModel the caller's array, calibrateYieldCurveModel a copy.
CalCreateModel ==
    /\ calpc = "create"
    /\ \E r \in {createModel(tmpl, tmplCovar, callerInstruments)} :
          /\ callerInstruments' = IF variant = "vasicek" THEN r.instruments
                                  ELSE callerInstruments
          /\ IF r.err # "none"
             THEN /\ calpc' = "threw" /\ calErr' = r.err
                  /\ UNCHANGED <<model, state, instruments, calls, dateIdx, stateHistory>>
             ELSE /\ calpc' = "fit" /\ calErr' = calErr
                  /\ model' = r.model
                  /\ state' = VRep(StateLength(r.model), Zero)
                  /\ instruments' = r.instruments
                  /\ calls' = 0
                  /\ dateIdx' = 1
                  /\ stateHistory' = <<>>
    /\ UNCHANGED <<marketRates, hasOptions, numIter, pc, iter, err, priced, updates,
                   state0, exact, noiseLeft>>
    /\ UNCHANGED <<libVars, variant, tmpl, tmplCovar, panel, outer, calMaxDiff, realized>>

\* the call fitYieldCurve(model, instruments, row) for the next date
CalFitDate ==
    /\ calpc = "fit" /\ dateIdx <= numRows(panel)
    /\ EnterFit(IF variant = "vasicek" THEN panel[dateIdx]
                ELSE UsedMarketRates(panel[dateIdx], callerInstruments, instruments),
                instruments, FALSE)
    /\ calpc' = "infit"
    /\ UNCHANGED <<libVars, variant, tmpl, tmplCovar, panel, callerInstruments, outer,
                   dateIdx, stateHistory, calMaxDiff, calErr, realized>>

\* CalFitReturned that also writes the fitted state's first component into
\* the structural covariance, a covariance update placed inside the date loop
CalFitReturnedWritingCovar ==
    /\ calpc = "infit" /\ pc = "returned"
    /\ stateHistory' = Append(stateHistory, state)
    /\ dateIdx' = dateIdx + 1
    /\ calpc' = "fit"
    /\ tmplCovar' = [tmplCovar EXCEPT ![1][1] = state[1]]
    /\ UNCHANGED <<fitVars, libVars, variant, tmpl, panel, callerInstruments,
                   outer, calMaxDiff, calErr, realized>>

\* the per-date fit returned: stateHistory[i] = model.state().slice()
CalFitReturned ==
    /\ calpc = "infit" /\ pc = "returned"
    /\ stateHistory' = Append(stateHistory, state)
    /\ dateIdx' = dateIdx + 1
    /\ calpc' = "fit"
    /\ UNCHANGED <<fitVars, libVars, variant, tmpl, tmplCovar, panel, callerInstruments,
                   outer, calMaxDiff, calErr, realized>>

\* the per-date fit threw: nothing catches it
CalFitThrew ==
    /\ calpc = "infit" /\ pc = "threw"
    /\ calpc' = "threw" /\ calErr' = err
    /\ UNCHANGED <<fitVars, libVars, variant, tmpl, tmplCovar, panel, callerInstruments,
                   outer, dateIdx, stateHistory, calMaxDiff, realized>>

\* the values the computed covariance may take
CovarChoices(covar) ==
    {covar} \cup
    (IF Len(covar) > 0 /\ \A i \in 1..Len(covar) : AllFinite(covar[i])
     THEN {[covar EXCEPT ![1][1] = RAdd(covar[1][1], CovarNoise)]}
     ELSE {})

\* after the last date: diff, covariance, muleq(covar, 250)
CalRealize ==
    /\ calpc = "fit" /\ dateIdx > numRows(panel)
    /\ \E d \in {diff(stateHistory)} :
          IF d.err # "none"
          THEN calpc' = "threw" /\ calErr' = d.err /\ realized' = realized
          ELSE \E c \in {covariance(d.data)} :
                  IF c.err # "none"
                  THEN calpc' = "threw" /\ calErr' = c.err /\ realized' = realized
                  ELSE /\ calpc' = "compare" /\ calErr' = calErr
                       /\ \E cv \in CovarChoices(Tup([i \in 1..Len(c.C) |->
                                          VScale(Num(AnnualFactor), c.C[i])])) :
                             realized' = cv
    /\ UNCHANGED <<fitVars, libVars, variant, tmpl, tmplCovar, panel, callerInstruments,
                   outer, dateIdx, stateHistory, calMaxDiff>>

\* the covariance the loop compares with and writes: model.covariance() in
\* calibrate, modelTemplate.covariance() in calibrateYieldCurveModel
ModelCovar == IF variant = "vasicek" THEN model.C ELSE tmplCovar

\* the comparison, the return or the update of the covariance, and the end
\* of the loop body: calibrateYieldCurveModel returns after its first
\* update, calibrate goes on and throws when iter reaches 50
CalCompare ==
    /\ calpc = "compare"
    /\ \E maxDiff \in {CovarMaxDiff(realized, ModelCovar)} :
          /\ calMaxDiff' = maxDiff
          /\ IF LtTol(maxDiff, CovTolInv)
             THEN calpc' = "returned" /\ UNCHANGED <<tmplCovar, outer, calErr>>
             ELSE /\ tmplCovar' = CovarOverwrite(tmplCovar, realized, Len(ModelCovar))
                  /\ IF variant = "generic"
                     THEN calpc' = "returned" /\ UNCHANGED <<outer, calErr>>
                     ELSE /\ outer' = outer + 1
                          /\ calpc' = IF outer + 1 < VasicekOuterLimit
                                      THEN "create" ELSE "threw"
                          /\ calErr' = IF outer + 1 < VasicekOuterLimit
                                       THEN calErr ELSE CalibrationError
    /\ UNCHANGED <<fitVars, libVars, variant, tmpl, panel, callerInstruments, dateIdx,
                   stateHistory, realized>>

CalNext ==
    \/ CalCall
    \/ CalCreateModel
    \/ CalFitDate
    \/ (calpc = "infit" /\ FitIterate)
    \/ CalFitReturned
    \/ CalFitThrew
    \/ CalRealize
    \/ CalCompare

CalibSpec == CalInit /\ [][CalNext]_vars /\ WF_vars(CalNext)

----------------------------------------------------------------------------
(* Claims about fitYieldCurve *)

\* the residual of instrument i at the current state is below 1e-8
ResidualBelowEps(i) ==
    LtTol(MathAbs(RSub(marketRates[i],
                       impliedRate(model, state, instruments[i]).rate)), EpsInv)

\* C1: fitYieldCurve returns only with a state at which every instrument's
\* |marketRate - impliedRate| is below 1e-8, found by a tolerance check in an
\* iteration numbered at most 100; the loop never runs past iteration 100,
\* and a call whose checks all failed has thrown the Newton error after its
\* 100th update instead of returning.
C1_ReturnsOnlyWithinTolerance ==
    /\ pc = "returned" =>
          /\ iter <= MaxIter
          /\ \A i \in 1..Len(instruments) : ResidualBelowEps(i)
    /\ pc = "loop" => iter <= MaxIter
    /\ iter > MaxIter => pc = "threw" /\ err = NewtonError
    /\ err = NewtonError => pc = "threw" /\ iter = MaxIter + 1 /\ updates = MaxIter

\* a return reached after a tolerance check that failed
C1_Witness ==
    /\ pc = "returned" /\ updates >= 2 /\ Len(instruments) >= 2
    /\ \A i \in 1..Len(instruments) : ResidualBelowEps(i)

\* C2: every successful return follows at least one Newton update and
\* happens in an iteration numbered 2..100, which is the numIter reported
\* when options were passed, also when the starting state already priced
\* every instrument within the tolerance.
C2_NoReturnInFirstIteration ==
    pc = "returned" =>
        /\ updates >= 1
        /\ iter \in 2..MaxIter
        /\ hasOptions => numIter = iter

\* a warm start from a fitted state with the same quotes: the state is
\* already within tolerance, yet one update was made and numIter is 2
C2_Witness ==
    /\ pc = "returned" /\ calls = 2 /\ state = state0 /\ updates = 1
    /\ Len(instruments) >= 1 /\ hasOptions /\ numIter = 2

\* the model's linear constraints P.x = q hold at the current state
ConstraintsHold ==
    \A i \in 1..NumConstraints(model) : Dot(model.P[i], state) = model.q[i]

\* C3: after a Newton update that added the exact solution of its linear
\* system, P.x = q holds, whatever state the call started from; so it holds
\* at every successful return whose last update was exact.
C3_ConstraintsHoldAfterExactUpdate ==
    (updates >= 1 /\ exact) => ConstraintsHold

\* a second fit, started from the state of the first, of a model whose
\* constraints have a non-zero right-hand side
C3_Witness ==
    /\ pc = "returned" /\ calls = 2 /\ updates >= 1 /\ exact
    /\ NumConstraints(model) = 2 /\ model.q[2] # Zero
    /\ state0 # VRep(Len(state), Zero)
    /\ ConstraintsHold

\* C4: a call with a number of market rates different from the number of
\* instruments has thrown the 'same length' RangeError.
C4_CountMismatchThrows ==
    (calls >= 1 /\ Len(instruments) # Len(marketRates)) =>
        /\ pc = "threw"
        /\ err = "RangeError: instruments and marketRates must have the same length."

\* more market rates than instruments, rejected
C4_Witness ==
    /\ pc = "threw" /\ Len(marketRates) > Len(instruments)
    /\ err = "RangeError: instruments and marketRates must have the same length."

\* C5: a call with n + m > p has thrown a precondition RangeError, and the
\* 'more constraints than state variables' error is thrown only when
\* n + m > p.
C5_OverConstrainedThrows ==
    /\ (calls >= 1 /\ Len(instruments) + NumConstraints(model) > Len(state)) =>
          pc = "threw" /\ err \in PreconditionErrors
    /\ err = "RangeError: There are more constraints than state variables." =>
          Len(instruments) + NumConstraints(model) > Len(state)

\* n + m = p + 1 only because of the constraint rows, rejected
C5_Witness ==
    /\ pc = "threw"
    /\ err = "RangeError: There are more constraints than state variables."
    /\ Len(instruments) <= Len(state)

\* C6: a call that began iterating has either no regularizer and n + m = p,
\* or a regularizer of p rows with p columns each.
C6_IteratesOnlyWithSquareRegularizer ==
    (calls >= 1 /\ iter >= 1) =>
        \/ /\ Len(Quadratic(model)) = 0
           /\ Len(instruments) + NumConstraints(model) = Len(state)
        \/ /\ Len(Quadratic(model)) = Len(state)
           /\ \A i \in 1..Len(state) : Len(Quadratic(model)[i]) = Len(state)

\* the loop running with a regularizer of p rows and fewer than p columns
C6_Witness ==
    /\ pc = "loop" /\ iter >= 2
    /\ Len(Quadratic(model)) = Len(state)
    /\ \E i \in 1..Len(state) : Len(Quadratic(model)[i]) < Len(state)

\* C7: when a precondition RangeError has been thrown, the call has priced
\* no instrument, made no update, not entered the loop, and the state vector
\* is the one the call started with.
C7_PreconditionFailureBeforeLoop ==
    (pc = "threw" /\ err \in PreconditionErrors) =>
        /\ priced = 0 /\ updates = 0 /\ iter = 0
        /\ state = state0

\* a rejected second call on a model whose state the first call fitted
C7_Witness ==
    /\ pc = "threw" /\ err \in PreconditionErrors /\ calls = 2
    /\ state # VRep(Len(state), Zero)
    /\ priced = 0 /\ state = state0

----------------------------------------------------------------------------
(* Claims about the calibration loops *)

\* every compared entry of the realized covariance is within 1e-6 of the
\* model covariance
WithinCovTol ==
    \A i, j \in 1..Len(ModelCovar) :
        LtTol(MathAbs(RSub(realized[i][j], ModelCovar[i][j])), CovTolInv)

\* C8: calibrateYieldCurveModel returns only when the maximum absolute
\* entrywise difference found by its latest comparison is below 1e-6.
C8_GenericReturnsOnlyConverged ==
    (variant = "generic" /\ calpc = "returned") => LtTol(calMaxDiff, CovTolInv)

\* calibrateYieldCurveModel returned right after overwriting the covariance
\* in an iteration whose difference was not below the tolerance
C8_Witness ==
    /\ variant = "generic" /\ calpc = "returned" /\ outer = 1
    /\ isFinite(calMaxDiff) /\ ~LtTol(calMaxDiff, CovTolInv)
    /\ tmplCovar = realized /\ tmplCovar # TemplateCovar(tmpl)

CalEnded == calpc \in {"returned", "threw"}

\* the state part of C9 as amended
C9_State ==
    variant = "vasicek" =>
        /\ outer <= VasicekOuterLimit
        /\ ~CalEnded => outer < VasicekOuterLimit
        /\ calpc = "returned" => outer < VasicekOuterLimit /\ WithinCovTol
        /\ calpc = "compare" =>
              Len(stateHistory) = numRows(panel) /\ calls = numRows(panel)
        /\ calpc \in {"fit", "infit"} => calls <= numRows(panel)
        /\ calpc = "threw" => calErr # "none"
        /\ calErr = CalibrationError =>
              calpc = "threw" /\ outer = VasicekOuterLimit /\ ~WithinCovTol

\* the step part of C9 as amended: the comparison that finds the realized
\* covariance within the tolerance returns
C9_Step ==
    (variant = "vasicek" /\ calpc = "compare" /\ calpc' # "compare" /\ WithinCovTol)
        => calpc' = "returned"

C10_Step ==
    /\ (calpc = "compare" /\ calpc' # "compare") =>
          IF WithinCovTol THEN tmplCovar' = tmplCovar
          ELSE /\ \A i, j \in 1..Len(ModelCovar) : tmplCovar'[i][j] = realized[i][j]
               /\ \A i, j \in 1..Len(tmplCovar) :
                     (i > Len(ModelCovar) \/ j > Len(ModelCovar)) =>
                         tmplCovar'[i][j] = tmplCovar[i][j]
    /\ (variant = "vasicek" /\ calpc = "create" /\ calpc' = "fit") =>
          \A i, j \in 1..Len(model'.C) : model'.C[i][j] = tmplCovar[i][j]
    /\ (calpc # "compare") => tmplCovar' = tmplCovar

C10_CovarianceOverwrittenUnlessConverged == [][C10_Step]_vars

\* the second outer iteration fitting a fresh model that carries the
\* realized covariance of the first, off-diagonal entries included
C10_Witness ==
    /\ variant = "vasicek" /\ outer = 2 /\ calpc = "fit"
    /\ tmplCovar = realized /\ model.C = tmplCovar
    /\ Len(tmplCovar) = 2 /\ tmplCovar[1][2] # Zero

\* the steps of a per-date fitYieldCurve call inside a calibration
InFitStep == calpc = "infit" \/ (calpc = "fit" /\ calpc' = "infit")

\* the step part of C11
C11_Step ==
    /\ tmplCovar' # tmplCovar =>
          calpc = "compare" /\ Len(stateHistory) = numRows(panel)
    /\ InFitStep => model' = model /\ tmplCovar' = tmplCovar
    /\ (calpc \in {"fit", "infit"} /\ calpc' \in {"fit", "infit"}) =>
          model' = model /\ tmplCovar' = tmplCovar
    /\ model' # model => calpc = "create"

\* C11: the structural covariance changes only in the comparison step of a
\* calibration, when every date of the outer iteration has been fitted; the
\* steps of fitYieldCurve change nothing of the model but its state vector
\* (the covariance and every other fixed member stay as createModel set
\* them), and from the first fit of an outer iteration to its last neither
\* the structural covariance nor the model's copy of it changes.
C11_CovarianceWrittenOnlyAfterFits == [][C11_Step]_vars

\* an outer iteration whose fits all returned and whose comparison then
\* wrote the structural covariance
C11_Witness ==
    /\ variant = "vasicek" /\ calpc = "create" /\ outer = 2
    /\ Len(stateHistory) = numRows(panel) /\ numRows(panel) >= 3
    /\ tmplCovar # TemplateCovar(tmpl) /\ model.C = TemplateCovar(tmpl)

----------------------------------------------------------------------------
(* BSpline and SplineModel as actions *)

\* the largest degree and derivative order tried, and the grid of x: the
\* multiples of 1/GridDen from -1 to one past the largest knot
MaxDegree == 3
GridDen == 2
MaxKnot == 3

KnotLists ==
    {<<>>, <<0>>, <<0, 1>>, <<1, 0>>, <<1, 1>>, <<0, 1, 2>>, <<2, 0, 1>>,
     <<0, 1, 1>>, <<0, 1, 2, 3>>, <<0, 1, 3>>, <<0, 2, 2, 3>>, <<3, 1, 0, 2>>}
Degrees == (-1)..MaxDegree
Orders == (-1)..(MaxDegree + 1)
Grid == {Rat(k, GridDen) : k \in (-GridDen)..((MaxKnot + 1) * GridDen)}

BsInit ==
    /\ \E xs \in KnotLists, dg \in Degrees, mk \in BOOLEAN :
          ctorArgs = [xs |-> xs, degree |-> dg, addMultiKnots |-> mk]
    /\ bspline = Unset /\ bspc = "new" /\ bsErr = "none"
    /\ evalArgs = <<>> /\ evalRet = <<>>
    /\ SmIdle /\ InstIdle /\ CovIdle /\ GpdIdle
    /\ CalIdle
    /\ model = <<>> /\ state = <<>> /\ state0 = <<>> /\ instruments = <<>>
    /\ marketRates = <<>> /\ hasOptions = FALSE /\ numIter = 0
    /\ pc = "idle" /\ iter = 0 /\ err = "none" /\ priced = 0 /\ updates = 0
    /\ exact = FALSE /\ calls = 0 /\ noiseLeft = 0

\* new BSpline(xs, degree, addMultiKnots)
BsConstruct ==
    /\ bspc = "new"
    /\ \E r \in {BSplineNew(ctorArgs.xs, ctorArgs.degree, ctorArgs.addMultiKnots)} :
          /\ bspline' = r.obj
          /\ bsErr' = r.err
          /\ bspc' = IF r.err = "none" THEN "built" ELSE "threw"
    /\ UNCHANGED <<ctorArgs, evalArgs, evalRet, smVars, instVars, covVars, gpdVars, fitVars, calVars>>

\* spline.evaluate(x, order) on the constructed object; evaluate writes no
\* field, so a second call would return what a first call with its arguments
\* returns
BsEvaluate ==
    /\ bspc = "built"
    /\ \E x \in Grid, order \in Orders :
          \E r \in {evaluate(bspline, x, order)} :
              /\ evalArgs' = [x |-> x, order |-> order]
              /\ evalRet' = r.c
              /\ bsErr' = r.err
              /\ bspc' = IF r.err = "none" THEN "evaluated" ELSE "evalThrew"
    /\ UNCHANGED <<ctorArgs, bspline, smVars, instVars, covVars, gpdVars, fitVars, calVars>>

BsNext == BsConstruct \/ BsEvaluate
BSplineSpec == BsInit /\ [][BsNext]_vars

SmMaturities ==
    {<<1>>, <<1, 2>>, <<1, 3>>, <<1, 2, 3>>, <<3, 1, 2>>, <<1, 2, 3, 4>>}
\* F'(last knot) = 0, F'(last knot) = 1/20, F''(first knot) = 0, a
\* condition at a knot index the knot vector does not have, and one on F''
\* at the second knot with its derivValue left out
SmConditionLists ==
    {<<>>,
     <<[knotIndex |-> -1, derivOrder |-> 1, derivValue |-> Zero]>>,
     <<[knotIndex |-> -1, derivOrder |-> 1, derivValue |-> Rat(1, 20)]>>,
     <<[knotIndex |-> 9, derivOrder |-> 1, derivValue |-> Zero]>>,
     <<[knotIndex |-> 1, derivOrder |-> 2, derivValue |-> Undefined]>>,
     <<[knotIndex |-> -1, derivOrder |-> 1, derivValue |-> Zero],
       [knotIndex |-> 0, derivOrder |-> 2, derivValue |-> Zero]>>}
SmRateLists ==
    {<<Rat(1, 50)>>, <<Rat(1, 50), Rat(3, 100)>>,
     <<Rat(3, 100), Rat(4, 125), Rat(7, 200)>>,
     <<Rat(1, 50), Rat(3, 100), Rat(3, 100), Rat(1, 25)>>}

\* the arguments of the constructor, and one instrument per maturity
SmInit ==
    /\ \E ts \in SmMaturities, dg \in Degrees, cs \in SmConditionLists :
          /\ smArgs = [ts |-> ts, degree |-> dg, conditions |-> cs]
          /\ \E type \in {"Fra", "LogDf"} :
                instruments = Tup([i \in 1..Len(ts) |->
                                     IF type = "Fra" THEN Fra(Num(ts[i]))
                                     ELSE LogDf(Num(ts[i]))])
    /\ smpc = "new" /\ smErr = "none"
    /\ BsIdle /\ InstIdle /\ CovIdle /\ GpdIdle
    /\ CalIdle
    /\ model = <<>> /\ state = <<>> /\ state0 = <<>>
    /\ marketRates = <<>> /\ hasOptions = FALSE /\ numIter = 0
    /\ pc = "idle" /\ iter = 0 /\ err = "none" /\ priced = 0 /\ updates = 0
    /\ exact = FALSE /\ calls = 0 /\ noiseLeft = 0

\* new SplineModel(ts, degree, conditions)
SmConstruct ==
    /\ smpc = "new"
    /\ \E r \in {SplineModelNew(smArgs.ts, smArgs.degree, smArgs.conditions)} :
          /\ smErr' = r.err
          /\ smpc' = IF r.err = "none" THEN "built" ELSE "threw"
          /\ model' = r.obj
          /\ state' = IF r.err = "none" THEN VRep(r.obj.n, Zero) ELSE <<>>
          /\ state0' = state'
    /\ UNCHANGED <<smArgs, bsVars, instVars, covVars, gpdVars, calVars, instruments, marketRates, hasOptions,
                   numIter, pc, iter, err, priced, updates, exact, calls, noiseLeft>>

\* the spline model is fitted to its instruments, or fitted again
SmFitCall ==
    /\ smpc = "built"
    /\ pc \in {"idle", "returned"}
    /\ calls < MaxCalls
    /\ \E rates \in SmRateLists, opts \in BOOLEAN : EnterFit(rates, instruments, opts)
    /\ UNCHANGED <<calVars, libVars>>

SmNext == SmConstruct \/ SmFitCall \/ (smpc = "built" /\ FitIterate)
SplineSpec == SmInit /\ [][SmNext]_vars

----------------------------------------------------------------------------
(* Instrument.impliedRate as actions, on a DiscreteModel over [0, 2] *)

\* maturities are the multiples of 1/16 from -1/4 to MaxSixteenths/16
MaxSixteenths == 32
InstMaturities == {Rat(k, 16) : k \in (-4)..MaxSixteenths}
InstStates == {VRep(3, Zero), <<Zero, Rat(1, 50), Rat(1, 20)>>}

InstInit ==
    /\ \E T \in InstMaturities :
          inst \in {Fra(T), LogDf(T), InstFwd(T), Swap(T)}
    /\ model = BaseDiscrete
    /\ state \in InstStates /\ state0 = state
    /\ ipc = "new" /\ loopT = NaN /\ finalDf = NaN
    /\ annuityFactor = Zero /\ payDates = <<>> /\ accrualFactors = <<>>
    /\ rate = NaN /\ instErr = "none"
    /\ BsIdle /\ SmIdle /\ CovIdle /\ GpdIdle
    /\ CalIdle
    /\ instruments = <<>> /\ marketRates = <<>> /\ hasOptions = FALSE /\ numIter = 0
    /\ pc = "idle" /\ iter = 0 /\ err = "none" /\ priced = 0 /\ updates = 0
    /\ exact = FALSE /\ calls = 0 /\ noiseLeft = 0

\* instrument.impliedRate(discount): the whole call for a Fra, a LogDf or an
\* InstFwd; for a Swap the statements before the loop
InstCall ==
    /\ ipc = "new"
    /\ IF inst.type = "Swap"
       THEN \E d \in {LogDiscount(model, state, inst.T)} :
               /\ instErr' = d.err
               /\ ipc' = IF d.err = "none" THEN "loop" ELSE "threw"
               /\ finalDf' = DfStandIn(d.F)
               /\ loopT' = inst.T
               /\ annuityFactor' = Zero
               /\ UNCHANGED rate
       ELSE \E r \in {ImpliedRateOf(model, state, inst)} :
               /\ instErr' = r.err
               /\ ipc' = IF r.err = "none" THEN "returned" ELSE "threw"
               /\ rate' = r.rate
               /\ UNCHANGED <<finalDf, loopT, annuityFactor>>
    /\ UNCHANGED <<inst, payDates, accrualFactors, bsVars, smVars, covVars, gpdVars, fitVars, calVars>>

\* the loop test of Swap.impliedRate with one run of the body, or, when the
\* test fails, the statements after the loop
SwapStep ==
    /\ ipc = "loop"
    /\ IF LtV(Zero, loopT)
       THEN \E d \in {LogDiscount(model, state, loopT)} :
               IF d.err # "none"
               THEN /\ ipc' = "threw" /\ instErr' = d.err
                    /\ UNCHANGED <<loopT, annuityFactor, payDates, accrualFactors, rate>>
               ELSE \E af \in {AccrualFactor(Frequency, loopT)} :
                       /\ annuityFactor' = RAdd(annuityFactor, RMul(af, DfStandIn(d.F)))
                       /\ payDates' = Append(payDates, loopT)
                       /\ accrualFactors' = Append(accrualFactors, af)
                       /\ loopT' = RSub(loopT, Frequency)
                       /\ UNCHANGED <<ipc, instErr, rate>>
       ELSE /\ rate' = RDiv(RSub(One, finalDf), annuityFactor)
            /\ ipc' = "returned"
            /\ UNCHANGED <<loopT, annuityFactor, payDates, accrualFactors, instErr>>
    /\ UNCHANGED <<inst, finalDf, bsVars, smVars, covVars, gpdVars, fitVars, calVars>>

InstNext == InstCall \/ SwapStep
InstrumentSpec == InstInit /\ [][InstNext]_vars

----------------------------------------------------------------------------
(* covariance as an action *)

\* a table has at most MaxObs rows, each one of the rows below of one width
MaxObs == 3
CovRows ==
    <<{<<Zero>>, <<One>>, <<Num(3)>>, <<NaN>>},
      {<<Zero, One>>, <<One, Num(3)>>, <<Num(3), Zero>>, <<NaN, Num(2)>>, <<Num(2), NaN>>},
      {<<Zero, One, Num(2)>>, <<One, Zero, NaN>>, <<Num(2), Num(2), Zero>>,
       <<NaN, One, One>>}>>
CovTables ==
    UNION {[1..nobs -> CovRows[nvar]] : nobs \in 1..MaxObs, nvar \in 1..Len(CovRows)}

CovInit ==
    /\ covTable \in CovTables
    /\ covpc = "new" /\ covRet = <<>> /\ covErr = "none"
    /\ BsIdle /\ SmIdle /\ InstIdle /\ GpdIdle
    /\ CalIdle
    /\ model = <<>> /\ state = <<>> /\ state0 = <<>> /\ instruments = <<>>
    /\ marketRates = <<>> /\ hasOptions = FALSE /\ numIter = 0
    /\ pc = "idle" /\ iter = 0 /\ err = "none" /\ priced = 0 /\ updates = 0
    /\ exact = FALSE /\ calls = 0 /\ noiseLeft = 0

\* covariance(table)
CovCall ==
    /\ covpc = "new"
    /\ \E r \in {covariance(covTable)} :
          /\ covRet' = r.C
          /\ covErr' = r.err
          /\ covpc' = IF r.err = "none" THEN "returned" ELSE "threw"
    /\ UNCHANGED <<covTable, bsVars, smVars, instVars, gpdVars, fitVars, calVars>>

CovNext == CovCall
CovSpec == CovInit /\ [][CovNext]_vars

----------------------------------------------------------------------------
(* TimeSeries.GetPanelData (Server.cs) as actions.  A date is a whole       *)
(* number of days, as LoadHistoricalData parses them; a series is a tuple   *)
(* of <<date, value>> pairs in strictly ascending date order, as a          *)
(* SortedDictionary enumerates.  An enumerator is its position in the       *)
(* series, 0 when it was set to null.                                       *)

MaxDate == 3
MaxSeries == 2
DateTimeMinValue == 0
DateTimeMaxValue == MaxDate + 1

\* null in an object[] and DBNull in a DataRow
Empty == <<>>
\* a double stored in an object[]
Boxed(v) == <<v>>

IndexOutOfRange == "IndexOutOfRangeException"

\* the series number i observed on the dates ds: its value on date d is
\* 10 * i + d
SeriesOn(i, ds) ==
    Tup([k \in 1..Cardinality(ds) |->
           Only({<<d, 10 * i + d>> :
                 d \in {CHOOSE d \in ds : Cardinality({e \in ds : e < d}) = k - 1}})])
SeriesCollections ==
    UNION {{Tup([i \in 1..ns |-> SeriesOn(i, dss[i])]) :
               dss \in [1..ns -> SUBSET (1..MaxDate)]} : ns \in 1..MaxSeries}

\* enumerator.Current.Key and enumerator.Current.Value
CurrentKey(series, pos) == series[pos][1]
CurrentValue(series, pos) == series[pos][2]

\* lines 126-144: the enumerators, n, the row buffer of n + 1 cells and date
MergeStart(sc) ==
    Only({[enumerators |-> Tup([i \in 1..Len(sc) |-> IF Len(sc[i]) = 0 THEN 0 ELSE 1]),
           n |-> n,
           row |-> Tup([j \in 1..(n + 1) |-> Empty]),
           date |-> DateTimeMinValue] :
          n \in {Cardinality({i \in 1..Len(sc) : Len(sc[i]) > 0})}})

\* pass 1 from enumerator number i on: the minimum current date, or date as
\* soon as an enumerator is found on it
RECURSIVE Pass1(_, _, _, _, _)
Pass1(sc, enumerators, date, i, nextDate) ==
    IF i > Len(enumerators) THEN nextDate
    ELSE IF enumerators[i] = 0 THEN Pass1(sc, enumerators, date, i + 1, nextDate)
    ELSE IF CurrentKey(sc[i], enumerators[i]) = date THEN date
    ELSE Pass1(sc, enumerators, date, i + 1,
               IF CurrentKey(sc[i], enumerators[i]) < nextDate
               THEN CurrentKey(sc[i], enumerators[i]) ELSE nextDate)

\* pass 2 from enumerator number i on (row[i] of the source is row[i + 1]
\* here): every enumerator on nextDate writes its value into its cell of
\* the row buffer and moves on; an enumerator at its end becomes null
RECURSIVE Pass2(_, _, _, _, _)
Pass2(sc, m, nextDate, i, ex) ==
    IF i > Len(m.enumerators) \/ ex # "none" THEN [m |-> m, err |-> ex]
    ELSE IF m.enumerators[i] = 0 THEN Pass2(sc, m, nextDate, i + 1, ex)
    ELSE IF CurrentKey(sc[i], m.enumerators[i]) # nextDate
    THEN Pass2(sc, m, nextDate, i + 1, ex)
    ELSE IF i + 1 > Len(m.row) THEN [m |-> m, err |-> IndexOutOfRange]
    ELSE Pass2(sc,
             [m EXCEPT !.row = [m.row EXCEPT ![i + 1] = Boxed(CurrentValue(sc[i], m.enumerators[i]))],
                       !.enumerators = [m.enumerators EXCEPT ![i] =
                           IF m.enumerators[i] < Len(sc[i]) THEN m.enumerators[i] + 1 ELSE 0],
                       !.n = IF m.enumerators[i] < Len(sc[i]) THEN m.n ELSE m.n - 1],
             nextDate, i + 1, ex)

\* table.Rows.Add(row): a new DataRow with the values of the buffer; the
\* columns the buffer does not reach stay DBNull
RowsAdd(rows, row, numColumns) ==
    Append(rows, Tup([j \in 1..numColumns |-> IF j <= Len(row) THEN row[j] ELSE Empty]))

GpdInit ==
    /\ seriesCollection \in SeriesCollections
    /\ merge = <<>> /\ dataTable = <<>> /\ gpdpc = "new" /\ gpdErr = "none"
    /\ BsIdle /\ SmIdle /\ InstIdle /\ CovIdle
    /\ CalIdle
    /\ model = <<>> /\ state = <<>> /\ state0 = <<>> /\ instruments = <<>>
    /\ marketRates = <<>> /\ hasOptions = FALSE /\ numIter = 0
    /\ pc = "idle" /\ iter = 0 /\ err = "none" /\ priced = 0 /\ updates = 0
    /\ exact = FALSE /\ calls = 0 /\ noiseLeft = 0

\* GetPanelData(seriesCollection) up to the first test of while (n > 0)
GpdCall ==
    /\ gpdpc = "new"
    /\ \E m \in {MergeStart(seriesCollection)} :
          /\ merge' = m
          /\ gpdpc' = IF m.n > 0 THEN "loop" ELSE "returned"
    /\ UNCHANGED <<seriesCollection, dataTable, gpdErr>>
    /\ UNCHANGED <<bsVars, smVars, instVars, covVars, fitVars, calVars>>

\* one turn of the while loop: pass 1, pass 2, Rows.Add, date, and the
\* next test of n > 0
GpdRow ==
    /\ gpdpc = "loop"
    /\ \E nextDate \in {Pass1(seriesCollection, merge.enumerators, merge.date, 1,
                              DateTimeMaxValue)} :
       \E r \in {Pass2(seriesCollection, [merge EXCEPT !.row[1] = nextDate], nextDate, 1,
                       "none")} :
          IF r.err # "none"
          THEN /\ merge' = r.m
               /\ gpdpc' = "threw" /\ gpdErr' = r.err
               /\ UNCHANGED dataTable
          ELSE /\ merge' = [r.m EXCEPT !.date = nextDate + 1]
               /\ dataTable' = RowsAdd(dataTable, r.m.row, Len(seriesCollection) + 1)
               /\ gpdpc' = IF r.m.n > 0 THEN "loop" ELSE "returned"
               /\ UNCHANGED gpdErr
    /\ UNCHANGED seriesCollection
    /\ UNCHANGED <<bsVars, smVars, instVars, covVars, fitVars, calVars>>

GpdNext == GpdCall \/ GpdRow
PanelDataSpec == GpdInit /\ [][GpdNext]_vars

----------------------------------------------------------------------------
(* The whole model: every scenario above *)

Init == FitInit \/ CalInit \/ BsInit \/ SmInit \/ InstInit \/ CovInit \/ GpdInit
Next ==
    \/ LibIdle /\ (FitNext \/ CalNext)
    \/ BsNext \/ SmNext \/ InstNext \/ CovNext \/ GpdNext
Spec == Init /\ [][Next]_vars

----------------------------------------------------------------------------
(* Claims about BSpline *)

Constructed == bspc \in {"built", "evaluated", "evalThrew"}
SuppliedCountsBad ==
    \/ Len(ctorArgs.xs) < 2
    \/ ctorArgs.degree < 1
    \/ ctorArgs.degree > Len(ctorArgs.xs) - 1
\* the knots the constructor would store: the supplied ones and, when
\* multiplicity knots are requested, degree more at either end
StoredCount ==
    Len(ctorArgs.xs) + (IF ctorArgs.addMultiKnots THEN 2 * ctorArgs.degree ELSE 0)
StoredCountsBad ==
    \/ Len(ctorArgs.xs) < 2
    \/ ctorArgs.degree < 1
    \/ ctorArgs.degree > StoredCount - 1

\* C12 as stated: constructing a BSpline fails exactly when fewer than 2
\* knots are supplied, the degree is below 1 or the degree exceeds the number
\* of supplied knots minus 1, with or without multiplicity knots, and a
\* failing construction stores no object state.
C12_FailsExactlyOnSuppliedCounts ==
    bspc # "new" =>
        /\ (bspc = "threw") <=> SuppliedCountsBad
        /\ bspc = "threw" => bspline = Unset

\* C12 amended: constructing a BSpline fails exactly when fewer than 2 knots
\* are supplied, the degree is below 1 or the degree exceeds the number of
\* knots to be stored (the supplied ones plus, when multiplicity knots are
\* requested, 2 * degree added ones) minus 1; a failing construction stores
\* no object state, and a successful one stores the degree and that many knots.
C12_FailsExactlyOnStoredCounts ==
    bspc # "new" =>
        /\ (bspc = "threw") <=> StoredCountsBad
        /\ bspc = "threw" => bspline = Unset /\ bsErr # "none"
        /\ Constructed => bspline.p = ctorArgs.degree /\ Len(bspline.xs) = StoredCount

\* a degree above the supplied knot count minus 1 was accepted with
\* multiplicity knots: new BSpline([0, 1], 2, true)
C12_Witness ==
    /\ bspc = "built" /\ ctorArgs.addMultiKnots
    /\ ctorArgs.degree > Len(ctorArgs.xs) - 1
    /\ bspline = [xs |-> <<0, 0, 0, 1, 1, 1>>, p |-> 2]

\* x lies in [first knot, last knot] of the stored knot vector
InsideKnots(x) ==
    /\ ~LtV(x, Knot(bspline.xs, 0))
    /\ ~LtV(Knot(bspline.xs, Len(bspline.xs) - 1), x)
ValidOrder(order) == order >= 0 /\ order <= bspline.p

\* C13: evaluate(x, order) fails exactly when order is negative, order
\* exceeds the degree or x lies outside [first knot, last knot] of the stored
\* knot vector; otherwise it returns a vector of basisCount() entries.
C13_EvaluateFailsExactlyOutsideKnots ==
    bspc \in {"evaluated", "evalThrew"} =>
        /\ (bspc = "evalThrew") <=>
               ~(ValidOrder(evalArgs.order) /\ InsideKnots(evalArgs.x))
        /\ bspc = "evaluated" => Len(evalRet) = basisCount(bspline)

\* evaluate threw for a valid order at the last knot of a basis built
\* without multiplicity knots: new BSpline([0, 1, 2, 3], 1).evaluate(3)
C13_Witness ==
    /\ bspc = "evalThrew" /\ bsErr = RangeErrorX
    /\ ~ctorArgs.addMultiKnots /\ bspline = [xs |-> <<0, 1, 2, 3>>, p |-> 1]
    /\ evalArgs = [x |-> Num(3), order |-> 0]
    /\ InsideKnots(evalArgs.x) /\ ValidOrder(evalArgs.order)

NonDecreasing(xs) == \A i \in 1..(Len(xs) - 1) : xs[i] <= xs[i + 1]

\* C14 as stated: every successfully constructed BSpline stores a
\* non-decreasing knot vector of length at least degree + 2, so that
\* basisCount() is at least 1.
C14_StoredKnotsAtLeastDegreePlusTwo ==
    Constructed =>
        /\ NonDecreasing(bspline.xs)
        /\ Len(bspline.xs) >= degree(bspline) + 2
        /\ basisCount(bspline) >= 1

\* C14 amended: every successfully constructed BSpline stores a
\* non-decreasing knot vector of at least 2 and at least degree + 1 knots, so
\* basisCount() is at least 0; it is 0 exactly when no multiplicity knots
\* were requested and the degree is the number of supplied knots minus 1.
\* With multiplicity knots the length is at least 2 * degree + 2 and
\* basisCount() at least degree + 1.
C14_StoredKnotsSortedAndCounted ==
    Constructed =>
        /\ NonDecreasing(bspline.xs)
        /\ Len(bspline.xs) >= 2
        /\ Len(bspline.xs) >= degree(bspline) + 1
        /\ basisCount(bspline) >= 0
        /\ basisCount(bspline) = 0 <=>
               (~ctorArgs.addMultiKnots /\ ctorArgs.degree = Len(ctorArgs.xs) - 1)
        /\ ctorArgs.addMultiKnots =>
               /\ Len(bspline.xs) >= 2 * degree(bspline) + 2
               /\ basisCount(bspline) >= degree(bspline) + 1

\* unsorted knots were stored sorted in a basis that has no basis function:
\* new BSpline([3, 1, 0, 2], 3)
C14_Witness ==
    /\ bspc = "built" /\ ctorArgs.xs = <<3, 1, 0, 2>> /\ ~ctorArgs.addMultiKnots
    /\ bspline = [xs |-> <<0, 1, 2, 3>>, p |-> 3]
    /\ basisCount(bspline) = 0

\* evaluate(x) was called, with the default order 0
EvaluatedValue == bspc \in {"evaluated", "evalThrew"} /\ evalArgs.order = 0

\* C15 as stated: the basis values returned by evaluate(x) sum to 1 at every
\* x with first knot <= x < last knot.
C15_SumsToOneBetweenEndKnots ==
    (/\ EvaluatedValue
     /\ bspc = "evaluated"
     /\ ~LtV(evalArgs.x, Knot(bspline.xs, 0))
     /\ LtV(evalArgs.x, Knot(bspline.xs, Len(bspline.xs) - 1)))
    => RSum(evalRet) = One

\* C15 amended: for stored knots xs[0..n-1] and degree p, evaluate(x)
\* returns basis values that sum to 1 at every x with
\* xs[p] <= x < xs[n-1-p]; with added multiplicity knots these two are the
\* first and the last knot.
C15_SumsToOneOnSplineDomain ==
    /\ (/\ EvaluatedValue
        /\ ~LtV(evalArgs.x, Knot(bspline.xs, degree(bspline)))
        /\ LtV(evalArgs.x, Knot(bspline.xs, basisCount(bspline))))
       => bspc = "evaluated" /\ RSum(evalRet) = One
    /\ (Constructed /\ ctorArgs.addMultiKnots)
       => /\ Knot(bspline.xs, degree(bspline)) = Knot(bspline.xs, 0)
          /\ Knot(bspline.xs, basisCount(bspline)) = Knot(bspline.xs, Len(bspline.xs) - 1)

\* a quadratic basis over [0, 1, 3] with multiplicity knots, evaluated
\* between its knots: three values that are not 0 and sum to 1
C15_Witness ==
    /\ bspc = "evaluated" /\ evalArgs = [x |-> Rat(1, 2), order |-> 0]
    /\ ctorArgs.addMultiKnots
    /\ bspline = [xs |-> <<0, 0, 0, 1, 3, 3, 3>>, p |-> 2]
    /\ Len(evalRet) = 4
    /\ Cardinality({k \in 1..4 : evalRet[k] # Zero}) = 3
    /\ RSum(evalRet) = One

\* evaluate was called with an x in [first knot, last knot]
EvaluatedInside == bspc \in {"evaluated", "evalThrew"} /\ InsideKnots(evalArgs.x)
\* the degree-0 basis functions that are 1 at the x evaluated
Degree0Ones ==
    {i \in 0..(Len(bspline.xs) - 2) : N(i, 0, bspline.xs, evalArgs.x) = One}
\* basis i is the one the rule names: its interval is not empty and holds
\* x, or x is the last knot and the interval ends there
Degree0Named(i) ==
    /\ bspline.xs[i + 1] < bspline.xs[i + 2]
    /\ \/ ~LtV(evalArgs.x, Knot(bspline.xs, i)) /\ LtV(evalArgs.x, Knot(bspline.xs, i + 1))
       \/ /\ evalArgs.x = Knot(bspline.xs, Len(bspline.xs) - 1)
          /\ bspline.xs[i + 2] = bspline.xs[Len(bspline.xs)]
ExactlyOneDegree0 ==
    /\ Cardinality(Degree0Ones) = 1
    /\ \A i \in 0..(Len(bspline.xs) - 2) :
          /\ N(i, 0, bspline.xs, evalArgs.x) \in {Zero, One}
          /\ i \in Degree0Ones <=> Degree0Named(i)

\* C24 as stated: for every knot vector accepted by BSpline and every x in
\* [first knot, last knot], exactly one degree-0 basis function is 1 and
\* all others are 0.
C24_ExactlyOneDegree0Basis == EvaluatedInside => ExactlyOneDegree0

\* C24 amended: for every accepted knot vector whose first knot is below its
\* last knot and every x in [first knot, last knot], exactly one degree-0
\* basis function is 1 and all others are 0: the one whose non-empty
\* interval [knot[i], knot[i+1]) contains x, or, at the last knot, the one
\* on the last non-empty interval; when all knots are equal none is 1.
C24_ExactlyOneDegree0BasisOnProperRange ==
    EvaluatedInside =>
        IF bspline.xs[1] < bspline.xs[Len(bspline.xs)]
        THEN ExactlyOneDegree0
        ELSE Degree0Ones = {}

\* at the last knot of [0, 0, 1, 3, 3] the one degree-0 basis function that
\* is 1 is the one on [1, 3), not the one on the empty interval [3, 3]
C24_Witness ==
    /\ bspc = "evaluated" /\ bspline = [xs |-> <<0, 0, 1, 3, 3>>, p |-> 1]
    /\ evalArgs.x = Num(3)
    /\ Degree0Ones = {2}

\* C25: for any BSpline and any derivative order with 0 <= order <= degree,
\* the recursion in dN never reaches the degree-0, positive-order base case,
\* so no entry of the vector evaluate(x, order) returns is the NaN of that
\* case.
C25_NoNaNFromBaseCase ==
    bspc = "evaluated" =>
        /\ evalArgs.order >= 0 /\ evalArgs.order <= bspline.p
        /\ \A k \in 1..Len(evalRet) : evalRet[k] # NaN

\* a derivative of the highest order, order = degree, where the recursion
\* ends at degree 0 and order 0 together, with an entry that is not zero
C25_Witness ==
    /\ bspc = "evaluated" /\ evalArgs.order = bspline.p
    /\ \E k \in 1..Len(evalRet) : evalRet[k] \notin {Zero, NaN}

----------------------------------------------------------------------------
(* Claims about SplineModel *)

\* C16: a SplineModel built from n >= 2 maturities with degree p
\* (1 <= p <= n - 1) and p - 1 boundary conditions has a state vector whose
\* length is the wrapped basis's basisCount() = n + p and n plus the number
\* of constraint rows; fitting it to its n instruments with n quotes passes
\* every count precondition of fitYieldCurve, without a regularizer.
C16_SplineCountsMatch ==
    smpc = "built" =>
        /\ Len(smArgs.ts) >= 2
        /\ smArgs.degree >= 1 /\ smArgs.degree <= Len(smArgs.ts) - 1
        /\ Len(smArgs.conditions) = smArgs.degree - 1
        /\ Len(state) = basisCount(model.spline)
        /\ Len(state) = Len(smArgs.ts) + smArgs.degree
        /\ Len(state) = Len(instruments) + NumConstraints(model)
        /\ Quadratic(model) = <<>>
        /\ \A rates \in SmRateLists :
              Len(rates) = Len(instruments)
                  => FitPrecondition(model, state, instruments, rates) = "none"
        /\ (calls > 0 /\ Len(marketRates) = Len(instruments))
              => err \notin PreconditionErrors

\* a cubic spline model over four maturities, with its two boundary
\* conditions, got past the checks of fitYieldCurve and updated its 7 weights
C16_Witness ==
    /\ smpc = "built" /\ smArgs.degree = 3 /\ Len(smArgs.ts) = 4
    /\ Len(state) = 7 /\ NumConstraints(model) = 3
    /\ pc = "loop" /\ updates = 1

\* the scenario: maturities 1, 2, 3 (knots [0, 1, 2, 3]), degree 2,
\* zero-coupon instruments, quotes 0.03, 0.032, 0.035
ScenarioQuotes == <<Rat(3, 100), Rat(4, 125), Rat(7, 200)>>
Scenario ==
    /\ smArgs.ts = <<1, 2, 3>> /\ smArgs.degree = 2
    /\ instruments = <<Fra(One), Fra(Num(2)), Fra(Num(3))>>
ScenarioFitted == Scenario /\ calls > 0 /\ marketRates = ScenarioQuotes

\* -log(df(T)) / T of the fitted curve, from the basis and the weights
ZeroRate(T) ==
    RDiv(Dot(evaluate(model.spline, Num(T), 0).c, state), Num(T))
ReproducesQuotes ==
    \A i \in 1..3 :
        LtTol(MathAbs(RSub(ZeroRate(i), ScenarioQuotes[i])), EpsInv)

\* C17 as stated: the degree-2 spline model over knots [0, 1, 2, 3] with no
\* boundary condition other than F(0) = 0 can be constructed, and its fit
\* to the three quotes passes the preconditions and returns a curve that
\* reproduces them.
C17_FitsWithoutBoundaryCondition ==
    (Scenario /\ smArgs.conditions = <<>> /\ smpc # "new") =>
        /\ smpc = "built"
        /\ ScenarioFitted => pc # "threw"
        /\ (ScenarioFitted /\ pc = "returned") => ReproducesQuotes

\* C17 amended: with no boundary condition the constructor of the degree-2
\* spline model over knots [0, 1, 2, 3] throws the RangeError asking for 1
\* boundary condition; with the one condition degree 2 requires, on the first
\* derivative at the last knot, the model is constructed, and its fit to the
\* three quotes passes the preconditions, never throws, ends within
\* 2 + NoiseBudget loop passes and returns a curve that reproduces the quotes.
C17_FitsWithOneBoundaryCondition ==
    /\ (Scenario /\ smArgs.conditions = <<>> /\ smpc # "new")
       => smpc = "threw" /\ smErr = ConditionCountError /\ model = <<>>
    /\ (/\ Scenario /\ smpc # "new"
        /\ Len(smArgs.conditions) = 1
        /\ smArgs.conditions[1].knotIndex = -1)
       => /\ smpc = "built"
          /\ ScenarioFitted => pc # "threw" /\ iter <= 2 + NoiseBudget
          /\ (ScenarioFitted /\ pc = "returned") => ReproducesQuotes

\* the fit of the scenario with the condition F'(3) = 0 returned
C17_Witness ==
    /\ ScenarioFitted /\ pc = "returned" /\ calls = 1
    /\ smArgs.conditions = <<[knotIndex |-> -1, derivOrder |-> 1, derivValue |-> Zero]>>
    /\ ZeroRate(1) = Rat(3, 100) /\ ZeroRate(2) = Rat(4, 125) /\ ZeroRate(3) = Rat(7, 200)

----------------------------------------------------------------------------
(* Claims about the instruments *)

InstEnded == ipc \in {"returned", "threw"}

\* C18: impliedRate of every instrument variant raises an error when the
\* maturity is <= 0, instead of returning a rate.
C18_NonPositiveMaturityRaises ==
    (InstEnded /\ ~LtV(Zero, maturity(inst))) => ipc = "threw"

\* impliedRate of a Fra of maturity 0 returned NaN, and raised nothing
C18_Witness ==
    /\ inst = Fra(Zero) /\ ipc = "returned" /\ instErr = "none" /\ rate = NaN

\* ceil(T / 0.25) for T = k/16
PeriodCount(T) == (T[1] * (16 \div T[2]) + 3) \div 4

\* C19: for a Swap of maturity T > 0, T a multiple of 1/16, the annuity loop
\* visits exactly the dates T, T - 0.25, T - 0.5, ... that are strictly
\* positive, ceil(T / 0.25) of them; every accrual factor is 0.25 except
\* possibly the one at the earliest date, which equals that date; and the
\* accrual factors add up to exactly T.
C19_SwapLoopCoversMaturity ==
    (inst.type = "Swap" /\ ipc = "returned" /\ LtV(Zero, inst.T)) =>
        /\ Len(payDates) = PeriodCount(inst.T)
        /\ Len(accrualFactors) = Len(payDates)
        /\ \A k \in 1..Len(payDates) :
              /\ payDates[k] = RSub(inst.T, RMul(Num(k - 1), Frequency))
              /\ LtV(Zero, payDates[k])
              /\ k < Len(payDates) => accrualFactors[k] = Frequency
              /\ k = Len(payDates) =>
                    /\ accrualFactors[k] \in {Frequency, payDates[k]}
                    /\ ~LtV(Frequency, accrualFactors[k])
                    /\ LtV(payDates[k], Frequency) => accrualFactors[k] = payDates[k]
        /\ ~LtV(Zero, RSub(inst.T, RMul(Num(Len(payDates)), Frequency)))
        /\ RSum(accrualFactors) = inst.T

\* a swap of maturity 19/16 returned after 5 dates, the earliest, 3/16, with
\* an accrual factor of 3/16
C19_Witness ==
    /\ inst = Swap(Rat(19, 16)) /\ ipc = "returned"
    /\ Len(payDates) = 5 /\ payDates[5] = Rat(3, 16)
    /\ accrualFactors = <<Frequency, Frequency, Frequency, Frequency, Rat(3, 16)>>
    /\ isFinite(rate)

----------------------------------------------------------------------------
(* Claims about covariance *)

\* the rows of the table in which both column i and column j are finite
PairRows(table, i, j) ==
    {k \in 1..numRows(table) : isFinite(table[k][i]) /\ isFinite(table[k][j])}

\* (sum(x*y) - sum(x)*sum(y)/count) / (count - 1) over those rows, x from
\* column i and y from column j
PairwiseCovariance(table, i, j) ==
    RDiv(RSub(RSum(Tup([k \in 1..numRows(table) |->
                          IF k \in PairRows(table, i, j)
                          THEN MulV(table[k][i], table[k][j]) ELSE Zero])),
              RDiv(RMul(RSum(Tup([k \in 1..numRows(table) |->
                                    IF k \in PairRows(table, i, j)
                                    THEN table[k][i] ELSE Zero])),
                        RSum(Tup([k \in 1..numRows(table) |->
                                    IF k \in PairRows(table, i, j)
                                    THEN table[k][j] ELSE Zero]))),
                   Num(Cardinality(PairRows(table, i, j))))),
         Num(Cardinality(PairRows(table, i, j)) - 1))

\* C20: covariance(table), for nobs observation rows and nvar variable
\* columns, returns an nvar-by-nvar matrix whose (i, j) entry is computed
\* from exactly the rows in which column i and column j are both finite.
C20_PairwiseColumnCovariance ==
    covpc \in {"returned", "threw"} =>
        /\ covpc = "returned"
        /\ Len(covRet) = numCols(covTable)
        /\ \A i, j \in 1..numCols(covTable) :
              /\ Len(covRet[i]) = numCols(covTable)
              /\ covRet[i][j] = PairwiseCovariance(covTable, i, j)

\* covariance returned, for three observations of two variables whose true
\* covariance matrix is finite, a matrix that differs from it
C20_Witness ==
    /\ covpc = "returned" /\ numRows(covTable) = 3 /\ numCols(covTable) = 2
    /\ \A i, j \in 1..2 : isFinite(PairwiseCovariance(covTable, i, j))
    /\ \E i, j \in 1..2 : covRet[i][j] # PairwiseCovariance(covTable, i, j)

----------------------------------------------------------------------------
(* Claims about the linear system of fitYieldCurve *)

\* the rows C[0..n+m-1] and the entries b[0..n+m-1] of the current pass:
\* gradients and rate residuals, then constraint rows and their residuals
PassRows ==
    Tup([i \in 1..(Len(instruments) + NumConstraints(model)) |->
           IF i <= Len(instruments)
           THEN impliedRate(model, state, instruments[i]).grad
           ELSE model.P[i - Len(instruments)]])
PassResiduals ==
    Tup([i \in 1..(Len(instruments) + NumConstraints(model)) |->
           IF i <= Len(instruments)
           THEN RSub(marketRates[i], impliedRate(model, state, instruments[i]).rate)
           ELSE RSub(model.q[i - Len(instruments)],
                     Dot(model.P[i - Len(instruments)], state))])

\* the system matrix CC and right-hand side of a pass have the block shape
\* of the quadratic objective
HasKktShape(CC, bb, H, A, b, x) ==
    /\ Len(CC) = Len(x) + Len(A) /\ Len(bb) = Len(x) + Len(A)
    /\ \A i \in 1..Len(CC) : Len(CC[i]) = Len(x) + Len(A)
    /\ \A i, j \in 1..Len(x) : j <= Len(H[i]) => CC[i][j] = H[i][j]
    /\ \A i \in 1..Len(A), j \in 1..Len(x) :
          CC[Len(x) + i][j] = A[i][j] /\ CC[j][Len(x) + i] = A[i][j]
    /\ \A i, j \in 1..Len(A) : CC[Len(x) + i][Len(x) + j] = Zero
    /\ \A i \in 1..Len(x) :
          Len(H[i]) = Len(x) => bb[i] = RSub(Zero, Dot(H[i], x))
    /\ \A i \in 1..Len(A) : bb[Len(x) + i] = b[i]

C21_Step ==
    (pc = "loop" /\ updates' = updates + 1 /\ Len(Quadratic(model)) > 0) =>
        /\ HasKktShape(KktMatrix(Quadratic(model), PassRows, Len(state)),
                       KktRhs(Quadratic(model), state, PassResiduals, Len(state)),
                       Quadratic(model), PassRows, PassResiduals, state)
        /\ Len(state') = Len(state)
        /\ exact' =>
              state' = VAdd(state,
                            SubSeq(numericSolve(
                                       KktMatrix(Quadratic(model), PassRows, Len(state)),
                                       KktRhs(Quadratic(model), state, PassResiduals,
                                              Len(state))),
                                   1, Len(state)))

\* C21: with a regularizer H, the system solved in each iteration is square
\* of size p + n + m, with H upper left, the gradient and constraint rows A
\* lower left, the transpose of A upper right and zeros lower right; its
\* right-hand side is -H.x, then the rate residuals, then the constraint
\* residuals; only the first p components of the solution are added to the
\* state vector.
C21_KktSystemAssembled == [][C21_Step]_vars

\* a pass with a 3-by-3 regularizer, one instrument and one constraint row
\* added the first 3 of the 5 solution components to the state vector
C21_Witness ==
    /\ variant = "none" /\ pc = "loop" /\ updates = 1 /\ exact
    /\ model.hasQuadratic /\ Len(model.H) = 3 /\ \A i \in 1..3 : Len(model.H[i]) = 3
    /\ Len(instruments) = 1 /\ NumConstraints(model) = 1
    /\ Len(state) = 3 /\ AllFinite(state) /\ state # VRep(3, Zero)

----------------------------------------------------------------------------
(* Claims about SplineModel.constraints *)

\* the knots before the multiplicity knots: [0, ...ts] sorted
SmKnots == SortNum(<<0>> \o smArgs.ts)
\* the knot a condition names: knotIndex counts from 0, a negative one from
\* the end
NamedKnot(cond) ==
    SmKnots[(IF cond.knotIndex >= 0 THEN cond.knotIndex
             ELSE Len(SmKnots) + cond.knotIndex) + 1]
\* the constraint row and right-hand side a condition stands for
ConditionRow(cond) == evaluate(model.spline, Num(NamedKnot(cond)), cond.derivOrder).c
ConditionValue(cond) == IF cond.derivValue = Undefined THEN Zero ELSE cond.derivValue
TrivialRow == evaluate(model.spline, Zero, 0).c

\* C22 as stated: constraints() returns p rows, first the basis values at
\* t = 0 with right-hand side 0, then the p - 1 user-supplied conditions.
C22_TrivialRowFirst ==
    smpc = "built" =>
        /\ Len(model.P) = smArgs.degree /\ Len(model.q) = smArgs.degree
        /\ model.P[1] = TrivialRow /\ model.q[1] = Zero
        /\ \A i \in 1..(smArgs.degree - 1) :
              /\ model.P[i + 1] = ConditionRow(smArgs.conditions[i])
              /\ model.q[i + 1] = ConditionValue(smArgs.conditions[i])

\* C22 amended: constraints() returns exactly p rows for degree p: first the
\* p - 1 user-supplied conditions in the order given, each the basis
\* derivative of the given order at the named knot with right-hand side
\* derivValue, or 0 when derivValue is left out; and last the basis values
\* at t = 0 with right-hand side 0.
C22_TrivialRowLast ==
    smpc = "built" =>
        /\ Len(model.P) = smArgs.degree /\ Len(model.q) = smArgs.degree
        /\ model.P[smArgs.degree] = TrivialRow /\ model.q[smArgs.degree] = Zero
        /\ \A i \in 1..(smArgs.degree - 1) :
              /\ model.P[i] = ConditionRow(smArgs.conditions[i])
              /\ model.q[i] = ConditionValue(smArgs.conditions[i])

\* a quadratic spline model whose one condition has no derivValue: the
\* condition's row comes first with right-hand side 0, the row of F(0) last
C22_Witness ==
    /\ smpc = "built" /\ smArgs.degree = 2 /\ smArgs.ts = <<1, 2, 3>>
    /\ smArgs.conditions[1].derivValue = Undefined
    /\ model.P[1] = ConditionRow(smArgs.conditions[1]) /\ model.q = <<Zero, Zero>>
    /\ model.P[2] = TrivialRow /\ model.P[1] # model.P[2]

----------------------------------------------------------------------------
(* Claims about VasicekModel *)

\* the model is a VasicekModel as its constructor left it
FreshVasicek == model.kind = "Vasicek" /\ calls = 0 /\ pc = "idle"

\* C23: a newly constructed VasicekModel has a diagonal covariance matrix in
\* which every factor has variance 0.0001 (volatility 1%) and every
\* off-diagonal entry is zero.
C23_DefaultVolatilityOnePercent ==
    FreshVasicek =>
        /\ Len(model.C) = model.n
        /\ \A i, j \in 1..model.n :
              model.C[i][j] = (IF i = j THEN Rat(1, 10000) ELSE Zero)

\* new VasicekModel([1, 2]) has the covariance matrix [[0, 0], [0, 0]]
C23_Witness ==
    /\ FreshVasicek /\ model.ts = <<One, Num(2)>> /\ model.n = 2
    /\ model.C = <<<<Zero, Zero>>, <<Zero, Zero>>>>

----------------------------------------------------------------------------
(* Claims about the returned discount function *)

\* the maturities at which a returned discount function is evaluated
CurveTimes == {One, Num(2)}

\* a closure that kept the state vector of the call's start in place of
\* the model
discountOfStateAtCallStart(t) == LogDiscount(model, state0, t)

\* the closure fitYieldCurve returns: discount(t) is model.discount(t) on
\* the model object the caller passed, whose state vector the solver
\* updates in place
discount(t) == LogDiscount(model, state, t)

\* from the second call on, the state vector the model had when the call
\* began is the one the previous call returned its discount function with
AfterEarlierReturn == calls >= 2 /\ pc \in {"loop", "returned", "threw"}

----------------------------------------------------------------------------
(* Claims about the failure by exhaustion *)

\* this step throws the error that follows the loop
ExhaustionStep == pc = "loop" /\ pc' = "threw" /\ err' = NewtonError

C27_Step ==
    /\ ExhaustionStep =>
          \* the step is the 100th update, added to the state vector
          /\ updates = MaxIter - 1 /\ updates' = MaxIter
          /\ \E r \in {FitPass(model, state, instruments, marketRates, iter)} :
                /\ r.what = "update"
                /\ \E noise \in NoiseChoices(r.delta) :
                      state' = VAdd(state, VAdd(r.delta, noise))
          \* the instruments were priced 100 times, each time before the
          \* update of the pass: the state after the last was not priced
          /\ priced' = MaxIter * Len(instruments)
          /\ state0' = state0
    /\ (pc = "threw" /\ err = NewtonError) =>
          \* nothing puts the state vector back afterwards
          state' = state /\ pc' = pc

\* C27: when fitYieldCurve fails by exhausting its iterations, exactly 100
\* updates have been added to the model's state vector and are left in
\* place, the state is not restored to its value before the call, and the
\* state after the 100th update is never tested against the tolerance.
C27_ExhaustionLeavesUpdatesInPlace == [][C27_Step]_vars

\* a fit of a NaN market rate has failed by exhaustion and left the model
\* with another state vector than the call started with
C27_Witness ==
    /\ pc = "threw" /\ err = NewtonError
    /\ updates = MaxIter /\ priced = MaxIter * Len(instruments)
    /\ state # state0

----------------------------------------------------------------------------
(* Claims about the market rates of the per-date fits *)

\* a per-date fit of the calibration has been called and has not been
\* followed by the next step of the calibration
InDateFit == calpc = "infit"

\* the places in the caller's array of the instruments createModel kept, in
\* their order
IsKeptPlaces(f) ==
    /\ \A k \in 1..Len(instruments) : callerInstruments[f[k]] = instruments[k]
    /\ \A k \in 1..(Len(instruments) - 1) : f[k] < f[k + 1]

C28_State ==
    (variant = "generic" /\ InDateFit) =>
        /\ Len(marketRates) = Len(instruments)
        /\ \E f \in [1..Len(instruments) -> 1..Len(callerInstruments)] :
              /\ IsKeptPlaces(f)
              /\ \A k \in 1..Len(instruments) : marketRates[k] = panel[dateIdx][f[k]]

C28_Step ==
    variant = "generic" => callerInstruments' = callerInstruments /\ panel' = panel

\* C28: in calibrateYieldCurveModel, for every historical date the
\* market-rate list passed to fitYieldCurve has the same length as the
\* instrument list retained by createModel, and its k-th entry is that
\* date's rate for the k-th retained instrument, whichever instruments
\* createModel removed; the caller's instruments array and the panel rows
\* are not modified.
C28_RatesFollowRetainedInstruments == []C28_State /\ [][C28_Step]_vars

\* the fit of the second date with the second of three instruments removed:
\* the rates passed are the first and the third of the row
C28_Witness ==
    /\ variant = "generic" /\ InDateFit /\ dateIdx = 2
    /\ Len(callerInstruments) = 3 /\ Len(instruments) = 2
    /\ instruments = <<callerInstruments[1], callerInstruments[3]>>
    /\ marketRates = <<panel[2][1], panel[2][3]>>
    /\ panel[2][2] # panel[2][3]

\* C29: in VasicekModelTemplate.calibrate every per-date fitYieldCurve call
\* receives as many market rates as instruments, also when createModel
\* removes instruments from the list; no per-date fit fails with the 'same
\* length' RangeError.
C29_VasicekRatesMatchInstruments ==
    (variant = "vasicek" /\ calls >= 1) =>
        /\ Len(marketRates) = Len(instruments)
        /\ err # "RangeError: instruments and marketRates must have the same length."

\* calibrate ended with the 'same length' RangeError of its first per-date
\* fit: createModel had left two of the caller's three instruments, and the
\* fit was passed the whole row of three rates
C29_Witness ==
    /\ variant = "vasicek" /\ calpc = "threw"
    /\ calErr = "RangeError: instruments and marketRates must have the same length."
    /\ Len(instruments) = 2 /\ Len(marketRates) = 3 /\ numCols(panel) = 3
    /\ dateIdx = 1

----------------------------------------------------------------------------
(* Claims about GetPanelData *)

\* the dates on which some series has an observation
ObservedDates ==
    UNION {{seriesCollection[i][k][1] : k \in 1..Len(seriesCollection[i])} :
              i \in 1..Len(seriesCollection)}
\* series i has an observation on date d
Observes(i, d) == \E k \in 1..Len(seriesCollection[i]) : seriesCollection[i][k][1] = d
\* the value of series i on date d
ValueOn(i, d) ==
    seriesCollection[i][CHOOSE k \in 1..Len(seriesCollection[i]) :
                            seriesCollection[i][k][1] = d][2]

\* the rows are in strictly ascending date order, one for each observed date
RowsAscendingOnePerDate ==
    /\ \A r \in 1..(Len(dataTable) - 1) : dataTable[r][1] < dataTable[r + 1][1]
    /\ {dataTable[r][1] : r \in 1..Len(dataTable)} = ObservedDates

\* C30: in the table produced by TimeSeries.GetPanelData from date-sorted
\* series, rows appear in strictly ascending date order with one row per
\* distinct date, and the cell for a date and a series holds that series'
\* value on that date and is empty when the series has no observation on
\* that date, never a value carried over from an earlier row.
C30_CellsHoldValueOrEmpty ==
    gpdpc = "returned" =>
        /\ RowsAscendingOnePerDate
        /\ \A r \in 1..Len(dataTable) : \A i \in 1..Len(seriesCollection) :
              dataTable[r][i + 1] =
                  IF Observes(i, dataTable[r][1]) THEN Boxed(ValueOn(i, dataTable[r][1]))
                  ELSE Empty

\* a returned table with rows in ascending order, one per date, in which a
\* series without an observation on the date of a row has the cell of the
\* row before
C30_Witness ==
    /\ gpdpc = "returned" /\ RowsAscendingOnePerDate
    /\ \E r \in 2..Len(dataTable) : \E i \in 1..Len(seriesCollection) :
          /\ ~Observes(i, dataTable[r][1])
          /\ dataTable[r][i + 1] # Empty
          /\ dataTable[r][i + 1] = dataTable[r - 1][i + 1]

====
